---- MODULE Spec2Model ----
(***************************************************************************)
(* Batch job lifecycle of the recipe-processor backend (server.js):        *)
(* POST /batch, GET /batch/:jobId[/results], jobManager (SQLite table      *)
(* batch_jobs), pollBatchStatus and processBatchAsync; and the row         *)
(* pipeline of the frontend (AIProcessor.jsx): splitIntoBatches, template  *)
(* expansion, processRow, batchProcessRows, processData, stopProcessing,   *)
(* reprocessFailedCells, the job poller and handleBatchResults; and the    *)
(* handler of POST /process.                                               *)
(*                                                                         *)
(* Specifications: Spec (one POST /batch and its task), SpecApi (with      *)
(* clients reading jobs), SpecRestart (on a table left by earlier runs),   *)
(* SpecStore (jobManager call by call), SpecSplit (splitIntoBatches),      *)
(* SpecApp (one processData run, which stopProcessing may cancel),         *)
(* SpecReprocess (a run on the bulk path, then reprocessFailedCells),      *)
(* SpecPoll (a run on the bulk path with the job poller), SpecProcess      *)
(* (one POST /process request).                                            *)
(*                                                                         *)
(* Strings are sequences of one-character strings where the code takes    *)
(* them apart (job ids, custom ids) and sequences of tokens elsewhere.     *)
(* JavaScript / SQL values that may be absent are wrapped: Str(s), Null,   *)
(* Hole (an empty array slot).                                             *)
(***************************************************************************)
EXTENDS Integers, Sequences, FiniteSets, TLC

(* ------------------------------ bounds -------------------------------- *)
\* largest number of messages in one POST /batch
MaxMsgs == 3
\* longest random suffix of a job id that is explored (the code takes 9)
MaxRandLen == 2
MaxCalls == 3      \* jobManager calls made on one table
MaxSplitLen == 3   \* length of the lists of messages of arbitrary sizes
MaxRows == 2       \* rows of the uploaded dataset

(* -------------------------- program constants ------------------------- *)
maxAttempts == 60
delayMs == 5000
CLEANUP_DAYS == 29

(* ------------------------------ values -------------------------------- *)
Null == [js |-> "null"]
Hole == [js |-> "empty"]
Str(s) == [js |-> "string", s |-> s]

\* parseInt's NaN; every number parseInt can return here is >= 0
NaN == 0 - 1

Digits == <<"0", "1", "2", "3", "4", "5", "6", "7", "8", "9">>

IsDigit(c) == \E d \in 1..10 : Digits[d] = c

DigitVal(c) == (CHOOSE d \in 1..10 : Digits[d] = c) - 1

\* `${index}` : decimal rendering of a non-negative integer
RECURSIVE DecStr(_)
DecStr(n) ==
  IF n < 10 THEN <<Digits[n + 1]>>
  ELSE DecStr(n \div 10) \o <<Digits[(n % 10) + 1]>>

\* String.prototype.split(sep) for a one-character separator
RECURSIVE SplitFrom(_, _, _)
SplitFrom(s, sep, cur) ==
  IF s = <<>> THEN <<cur>>
  ELSE IF Head(s) = sep THEN <<cur>> \o SplitFrom(Tail(s), sep, <<>>)
  ELSE SplitFrom(Tail(s), sep, Append(cur, Head(s)))

Split(s, sep) == SplitFrom(s, sep, <<>>)

\* parseInt(s): value of the longest prefix of decimal digits, NaN when that
\* prefix is empty (no sign, blank or 0x prefix occurs in the modelled ids)
RECURSIVE ParseDigits(_, _, _)
ParseDigits(s, acc, seen) ==
  IF s = <<>> \/ ~IsDigit(Head(s))
  THEN (IF seen THEN acc ELSE NaN)
  ELSE ParseDigits(Tail(s), acc * 10 + DigitVal(Head(s)), TRUE)

parseInt(s) == ParseDigits(s, 0, FALSE)

(* ------------------------------ job ids ------------------------------- *)
\* characters of Math.random().toString(36) that are explored
RandChars == {"0", "1", "a"}

RECURSIVE SeqsUpTo(_, _)
SeqsUpTo(S, n) ==
  IF n = 0 THEN {<<>>}
  ELSE LET shorter == SeqsUpTo(S, n - 1)
       IN  shorter \cup {Append(s, c) : s \in shorter, c \in S}

\* Math.random().toString(36).substr(2, 9)
RandStrings == SeqsUpTo(RandChars, MaxRandLen)

\* `job_${Date.now()}_${Math.random().toString(36).substr(2, 9)}`
MakeJobId(ts, rand) == <<"j", "o", "b", "_">> \o ts \o <<"_">> \o rand

\* `${jobId}_${index}`
CustomId(jid, i) == jid \o <<"_">> \o DecStr(i)

\* parseInt(result.custom_id.split('_')[2])
ParseIndex(customId) ==
  LET parts == Split(customId, "_")
  IN  IF Len(parts) >= 3 THEN parseInt(parts[3]) ELSE NaN

(* --------------------------- arrays and JSON --------------------------- *)
\* new Array(n)
NewArray(n) == [i \in 1..n |-> Hole]

\* arr[idx] = v  (a NaN key sets a property, not an element; an index at or
\* past the end grows the array, leaving holes)
ArraySet(arr, idx, v) ==
  IF idx = NaN THEN arr
  ELSE IF idx < Len(arr) THEN [arr EXCEPT ![idx + 1] = v]
  ELSE [i \in 1..(idx + 1) |->
          IF i <= Len(arr) THEN arr[i] ELSE IF i = idx + 1 THEN v ELSE Hole]

\* JSON.parse(JSON.stringify(arr)): holes are written as null
JsonArray(arr) == [i \in 1..Len(arr) |-> IF arr[i] = Hole THEN Null ELSE arr[i]]

\* progress: 0
ProgressZero == [num |-> 0, den |-> 1]

\* mutant: the ratio is not scaled to a percentage
Progress_NoPercent(count, total) == [num |-> count, den |-> total]

\* (processedCount / messages.length) * 100 kept as an exact fraction
Progress(count, total) == [num |-> count * 100, den |-> total]
ProgressLeq(p, q) == p.num * q.den <= q.num * p.den
ProgressIs100(p) == p.num = 100 * p.den

(* ------------------------------ job store ------------------------------ *)
\* mutant: total_messages is stored as the last index instead of the length
createJob_LastIndex(store, jid, totalMessages, at) ==
  IF jid \in DOMAIN store THEN store
  ELSE [j \in DOMAIN store \cup {jid} |->
          IF j = jid
          THEN [status |-> "created", progress |-> ProgressZero,
                created_at |-> at, completed_at |-> Null,
                total_messages |-> totalMessages - 1, processed_messages |-> 0,
                batch_id |-> Null, error |-> Null, results |-> <<>>,
                model_config |-> "modelConfig"]
          ELSE store[j]]

\* jobManager.createJob
createJob(store, jid, totalMessages, at) ==
  IF jid \in DOMAIN store THEN store
  ELSE [j \in DOMAIN store \cup {jid} |->
          IF j = jid
          THEN [status |-> "created", progress |-> ProgressZero,
                created_at |-> at, completed_at |-> Null,
                total_messages |-> totalMessages, processed_messages |-> 0,
                batch_id |-> Null, error |-> Null, results |-> <<>>,
                model_config |-> "modelConfig"]
          ELSE store[j]]

\* jobManager.updateJob: UPDATE ... SET <the given fields> WHERE job_id = ?
updateJob(store, jid, updates) ==
  [j \in DOMAIN store |->
     IF j = jid
     THEN [f \in DOMAIN store[j] |->
             IF f \in DOMAIN updates THEN updates[f] ELSE store[j][f]]
     ELSE store[j]]

\* mutant: a job completed exactly CLEANUP_DAYS days ago is deleted too
cleanupOldJobs_Inclusive(store, at) ==
  LET cutoff == at - CLEANUP_DAYS
      purged == {j \in DOMAIN store :
                   /\ store[j].completed_at # Null
                   /\ store[j].completed_at.at <= cutoff}
  IN  [j \in DOMAIN store \ purged |-> store[j]]

\* jobManager.cleanupOldJobs: DELETE ... WHERE completed_at < cutoff, with
\* cutoff = the current date moved back CLEANUP_DAYS days
cleanupOldJobs(store, at) ==
  LET cutoff == at - CLEANUP_DAYS
      purged == {j \in DOMAIN store :
                   /\ store[j].completed_at # Null
                   /\ store[j].completed_at.at < cutoff}
  IN  [j \in DOMAIN store \ purged |-> store[j]]

\* new Date().toISOString(), kept as the instant it denotes
Stamp(at) == [js |-> "date", at |-> at]

(* ------------------------- provider's answers -------------------------- *)
ResultTypes == {"succeeded", "errored", "expired"}

\* result.result.message.content[0].text of the request with index i
AnswerText(i) == <<"answer">> \o DecStr(i)

\* result.result.error.message of an errored request
ProviderErrorMessage == <<"Overloaded">>

\* the string the switch in processBatchAsync stores for one streamed result
ResultString(i, type) ==
  CASE type = "succeeded" -> Str(AnswerText(i))
    [] type = "errored"   -> Str(<<"Error: ">> \o ProviderErrorMessage)
    [] type = "expired"   -> Str(<<"Error: ", "Request expired">>)

(* ------------------------------- state --------------------------------- *)
VARIABLES
  db,              \* table batch_jobs: job id -> row
  now,             \* the date, in days since the model's start
  pc,              \* position of the POST /batch request and its background task
  response,        \* what POST /batch answered
  jobId,           \* processBatchAsync's jobId
  total,           \* messages.length
  batchId,         \* batch.id returned by the provider
  attempt,         \* pollBatchStatus: loop counter
  queries,         \* pollBatchStatus: batches.retrieve calls made by this call
  waited,          \* pollBatchStatus: ms spent in setTimeout by this call
  outcome,         \* provider: request index -> result type streamed, or "none"
  results,         \* processBatchAsync: local results array
  processedCount,  \* processBatchAsync: local counter
  index,           \* processBatchAsync: index parsed from the last custom_id
  item,            \* request index of the last streamed result
  err,             \* message of the caught exception
  reply,           \* what the last GET /batch/:jobId[/results] answered
  call,            \* the last jobManager call: its arguments and the table before it
  split,           \* splitIntoBatches: its argument, locals and position
  app,             \* AIProcessor: component state and the position of processData
  proc             \* POST /process: the request, the handler's locals and position

\* the state of POST /batch and of its background task
serverVars == <<db, now, pc, response, jobId, total, batchId, attempt, queries, waited,
                outcome, results, processedCount, index, item, err>>

\* the state the background task never touches
otherVars == <<reply, call, split, app, proc>>

vars == <<serverVars, otherVars>>

NoJob == <<>>
Items == 0..(total - 1)

\* no jobManager call made yet, splitIntoBatches not called, processData not running
NoCall == [op |-> "none"]
NotSplitting == [pc |-> "idle"]
NotProcessing == [pc |-> "idle"]
NoRequest == [pc |-> "idle"]

\* nothing outside POST /batch has happened
OthersIdle ==
  /\ reply = Null
  /\ call = NoCall
  /\ split = NotSplitting
  /\ proc = NoRequest
  /\ app = NotProcessing

\* no request received yet
ServerIdle ==
  /\ now = 0
  /\ pc = "idle"
  /\ response = Null
  /\ jobId = NoJob
  /\ total = 0
  /\ batchId = Null
  /\ attempt = 0
  /\ queries = 0
  /\ waited = 0
  /\ outcome = <<>>
  /\ results = <<>>
  /\ processedCount = 0
  /\ index = NaN
  /\ item = NaN
  /\ err = Null

\* the server starts on an empty table
Init ==
  /\ db = <<>>
  /\ ServerIdle
  /\ OthersIdle

HasJob == jobId \in DOMAIN db
job == db[jobId]

\* request indices whose result the provider has not streamed yet
Remaining == {i \in DOMAIN outcome : outcome[i] = "none"}

\* messages of the exceptions the awaited calls can raise
StoreError == <<"SQLITE_BUSY: database is locked">>
ProviderError == <<"Connection error.">>
TimeoutError == <<"Batch processing timeout">>

(* ------------------------------ POST /batch ---------------------------- *)
\* mutant: the handler starts the task and answers without the row written
PostBatch_Unsaved(n, rand) ==
  /\ pc = "idle"
  /\ jobId' = MakeJobId(DecStr(now), rand)
  /\ response' = [code |-> 200, jobId |-> jobId', status |-> "created"]
  /\ total' = n
  /\ pc' = "start"
  /\ UNCHANGED <<db, now, batchId, attempt, queries, waited, outcome, results,
                 processedCount, index, item, err>>
  /\ UNCHANGED otherVars

\* app.post('/batch'): createJob, start processBatchAsync, answer
PostBatch(n, rand) ==
  /\ pc = "idle"
  /\ LET jid == MakeJobId(DecStr(now), rand)
     IN  /\ db' = createJob(db, jid, n, Stamp(now))
         /\ jobId' = jid
         /\ response' = [code |-> 200, jobId |-> jid, status |-> "created"]
  /\ total' = n
  /\ pc' = "start"
  /\ UNCHANGED <<now, batchId, attempt, queries, waited, outcome, results,
                 processedCount, index, item, err>>
  /\ UNCHANGED otherVars

\* app.post('/batch'): createJob rejects, the handler answers 500
PostBatchFails ==
  /\ pc = "idle"
  /\ response' = [code |-> 500, error |-> StoreError]
  /\ pc' = "http500"
  /\ UNCHANGED <<db, now, jobId, total, batchId, attempt, queries, waited, outcome,
                 results, processedCount, index, item, err>>
  /\ UNCHANGED otherVars

(* --------------------------- processBatchAsync ------------------------- *)
\* updateJob(jobId, {status: 'processing', progress: 0})
MarkProcessing ==
  /\ pc = "start"
  /\ db' = updateJob(db, jobId, [status |-> "processing", progress |-> ProgressZero])
  /\ pc' = "create"
  /\ UNCHANGED <<now, response, jobId, total, batchId, attempt, queries, waited,
                 outcome, results, processedCount, index, item, err>>
  /\ UNCHANGED otherVars

\* anthropic.beta.messages.batches.create({ requests })
CreateBatch ==
  /\ pc = "create"
  /\ batchId' = Str(<<"msgbatch">>)
  /\ outcome' = [i \in Items |-> "none"]
  /\ pc' = "markWaiting"
  /\ UNCHANGED <<db, now, response, jobId, total, attempt, queries, waited, results,
                 processedCount, index, item, err>>
  /\ UNCHANGED otherVars

\* updateJob(jobId, {batch_id: batch.id, status: 'waiting'})
MarkWaiting ==
  /\ pc = "markWaiting"
  /\ db' = updateJob(db, jobId, [batch_id |-> batchId, status |-> "waiting"])
  /\ attempt' = 0
  /\ pc' = "poll"
  /\ UNCHANGED <<now, response, jobId, total, batchId, queries, waited, outcome,
                 results, processedCount, index, item, err>>
  /\ UNCHANGED otherVars

(* ----------------------------- pollBatchStatus ------------------------- *)
\* mutant: the loop runs one attempt too many
MayQuery_OneMore(a) == a <= maxAttempts

\* the loop test of pollBatchStatus
MayQuery(a) == a < maxAttempts

\* batches.retrieve answers processing_status 'ended': pollBatchStatus
\* returns (its locals are gone) and processBatchAsync allocates results
\* and processedCount
PollEnded ==
  /\ pc = "poll"
  /\ MayQuery(attempt)
  /\ attempt' = 0
  /\ queries' = 0
  /\ waited' = 0
  /\ results' = NewArray(total)
  /\ processedCount' = 0
  /\ pc' = "stream"
  /\ UNCHANGED <<db, now, response, jobId, total, batchId, outcome, index,
                 item, err>>
  /\ UNCHANGED otherVars

\* batches.retrieve answers a status other than 'ended'
PollPending ==
  /\ pc = "poll"
  /\ MayQuery(attempt)
  /\ queries' = queries + 1
  /\ pc' = "sleep"
  /\ UNCHANGED <<db, now, response, jobId, total, batchId, attempt, waited, outcome,
                 results, processedCount, index, item, err>>
  /\ UNCHANGED otherVars

\* await new Promise(resolve => setTimeout(resolve, delayMs)); attempt++
PollSleep ==
  /\ pc = "sleep"
  /\ waited' = waited + delayMs
  /\ attempt' = attempt + 1
  /\ pc' = "poll"
  /\ UNCHANGED <<db, now, response, jobId, total, batchId, queries, outcome,
                 results, processedCount, index, item, err>>
  /\ UNCHANGED otherVars

\* throw new Error('Batch processing timeout')
PollTimeout ==
  /\ pc = "poll"
  /\ ~MayQuery(attempt)
  /\ attempt' = 0
  /\ queries' = 0
  /\ waited' = 0
  /\ err' = Str(TimeoutError)
  /\ pc' = "catch"
  /\ UNCHANGED <<db, now, response, jobId, total, batchId, outcome, results,
                 processedCount, index, item>>
  /\ UNCHANGED otherVars

(* ---------------------- reconciliation of results ---------------------- *)
\* mutant: the update is written with the count before the increment
ProgressUpdate_Stale(count, n) ==
  [processed_messages |-> count - 1, progress |-> Progress(count - 1, n)]

\* the fields written after each reconciled item
ProgressUpdate(count, n) ==
  [processed_messages |-> count, progress |-> Progress(count, n)]

\* the fields written when the stream is exhausted
CompletedUpdate(arr, at) ==
  [status |-> "completed", results |-> JsonArray(arr), completed_at |-> Stamp(at)]

\* mutant: the catch block also resets the counters
FailureUpdate_Reset(e) ==
  [status |-> "failed", error |-> e, processed_messages |-> 0,
   progress |-> ProgressZero]

\* the fields written by the catch block
FailureUpdate(e) == [status |-> "failed", error |-> e]

\* one iteration of the for-await loop up to processedCount++: the provider
\* streams the result of request i, of the given type
Reconcile(i, type) ==
  /\ pc = "stream"
  /\ i \in Remaining
  /\ outcome' = [outcome EXCEPT ![i] = type]
  /\ item' = i
  /\ LET idx == ParseIndex(CustomId(jobId, i))
     IN  /\ index' = idx
         /\ results' = ArraySet(results, idx, ResultString(i, type))
  /\ processedCount' = processedCount + 1
  /\ pc' = "progress"
  /\ UNCHANGED <<db, now, response, jobId, total, batchId, attempt, queries, waited, err>>
  /\ UNCHANGED otherVars

\* updateJob(jobId, {processed_messages, progress}) ending the iteration
UpdateProgress ==
  /\ pc = "progress"
  /\ db' = updateJob(db, jobId, ProgressUpdate(processedCount, total))
  /\ pc' = "stream"
  /\ UNCHANGED <<now, response, jobId, total, batchId, attempt, queries, waited,
                 outcome, results, processedCount, index, item, err>>
  /\ UNCHANGED otherVars

\* mutant: the task ends with the completed update
Complete_NoSweep ==
  /\ pc = "stream"
  /\ Remaining = {}
  /\ db' = updateJob(db, jobId, CompletedUpdate(results, now))
  /\ pc' = "done"
  /\ UNCHANGED <<now, response, jobId, total, batchId, attempt, queries, waited,
                 outcome, results, processedCount, index, item, err>>
  /\ UNCHANGED otherVars

\* the stream is exhausted: updateJob(jobId, {status: 'completed', results, completed_at})
Complete ==
  /\ pc = "stream"
  /\ Remaining = {}
  /\ db' = updateJob(db, jobId, CompletedUpdate(results, now))
  /\ pc' = "cleanup"
  /\ UNCHANGED <<now, response, jobId, total, batchId, attempt, queries, waited,
                 outcome, results, processedCount, index, item, err>>
  /\ UNCHANGED otherVars

\* await jobManager.cleanupOldJobs()
Cleanup ==
  /\ pc = "cleanup"
  /\ db' = cleanupOldJobs(db, now)
  /\ pc' = "done"
  /\ UNCHANGED <<now, response, jobId, total, batchId, attempt, queries, waited,
                 outcome, results, processedCount, index, item, err>>
  /\ UNCHANGED otherVars

(* ------------------------------ exceptions ----------------------------- *)
\* positions inside the try block that await the job store
AtStoreCall ==
  \/ pc \in {"start", "markWaiting", "progress", "cleanup"}
  \/ pc = "stream" /\ Remaining = {}

\* positions inside the try block that await the provider
AtProviderCall ==
  \/ pc \in {"create", "stream"}
  \/ pc = "poll" /\ MayQuery(attempt)

\* a db.run inside the try block rejects
StoreThrows ==
  /\ AtStoreCall
  /\ err' = Str(StoreError)
  /\ pc' = "catch"
  /\ UNCHANGED <<db, now, response, jobId, total, batchId, attempt, queries, waited,
                 outcome, results, processedCount, index, item>>
  /\ UNCHANGED otherVars

\* batches.create, batches.retrieve or the results stream rejects
ProviderThrows ==
  /\ AtProviderCall
  /\ attempt' = 0
  /\ queries' = 0
  /\ waited' = 0
  /\ err' = Str(ProviderError)
  /\ pc' = "catch"
  /\ UNCHANGED <<db, now, response, jobId, total, batchId, outcome, results,
                 processedCount, index, item>>
  /\ UNCHANGED otherVars

\* catch (error): updateJob(jobId, {status: 'failed', error: error.message})
Catch ==
  /\ pc = "catch"
  /\ db' = updateJob(db, jobId, FailureUpdate(err))
  /\ pc' = "failed"
  /\ UNCHANGED <<now, response, jobId, total, batchId, attempt, queries, waited,
                 outcome, results, processedCount, index, item, err>>
  /\ UNCHANGED otherVars

\* the updateJob of the catch block rejects: unhandled rejection
CatchThrows ==
  /\ pc = "catch"
  /\ pc' = "rejected"
  /\ UNCHANGED <<db, now, response, jobId, total, batchId, attempt, queries, waited,
                 outcome, results, processedCount, index, item, err>>
  /\ UNCHANGED otherVars

(* ------------------------ GET /batch/:jobId[/results] ------------------ *)
\* jobManager.getJob: the row with results parsed back, or nothing
getJob(store, jid) == IF jid \in DOMAIN store THEN store[jid] ELSE Null

\* a well-formed id that POST /batch never issued
UnknownId == MakeJobId(<<"0">>, <<"x">>)

\* the ids a client may ask about
AskedIds == DOMAIN db \cup {UnknownId}

NotFound == [code |-> 404, error |-> <<"Batch job not found">>]
NotCompleted == [code |-> 400, error |-> <<"Batch job not completed yet">>]

\* app.get('/batch/:jobId'): 404 for no row, else the whole row
StatusAnswer(store, jid) ==
  LET row == getJob(store, jid)
  IN  IF row = Null THEN NotFound ELSE [code |-> 200, job |-> row]

\* mutant: the results are handed out whatever the status
ResultsAnswer_AnyStatus(store, jid) ==
  LET row == getJob(store, jid)
  IN  IF row = Null THEN NotFound ELSE [code |-> 200, results |-> row.results]

\* app.get('/batch/:jobId/results'): 404 for no row, 400 unless completed
ResultsAnswer(store, jid) ==
  LET row == getJob(store, jid)
  IN  IF row = Null THEN NotFound
      ELSE IF row.status # "completed" THEN NotCompleted
      ELSE [code |-> 200, results |-> row.results]

\* a client asks for the status of a job
GetStatus(jid) ==
  /\ reply' = [route |-> "status", jobId |-> jid, answer |-> StatusAnswer(db, jid)]
  /\ UNCHANGED <<serverVars, call, split, app, proc>>

\* a client asks for the results of a job
GetResults(jid) ==
  /\ reply' = [route |-> "results", jobId |-> jid, answer |-> ResultsAnswer(db, jid)]
  /\ UNCHANGED <<serverVars, call, split, app, proc>>

\* getJob rejects: either handler answers 500
GetFails(route, jid) ==
  /\ reply' = [route |-> route, jobId |-> jid,
               answer |-> [code |-> 500, error |-> StoreError]]
  /\ UNCHANGED <<serverVars, call, split, app, proc>>

(* ---------------------------- specification ---------------------------- *)
\* the steps of processBatchAsync
TaskNext ==
  \/ MarkProcessing
  \/ CreateBatch
  \/ MarkWaiting
  \/ PollEnded
  \/ PollPending
  \/ PollSleep
  \/ PollTimeout
  \/ \E i \in 0..MaxMsgs, type \in ResultTypes : Reconcile(i, type)
  \/ UpdateProgress
  \/ Complete
  \/ Cleanup
  \/ StoreThrows
  \/ ProviderThrows
  \/ Catch
  \/ CatchThrows

Next ==
  \/ \E n \in 0..MaxMsgs, rand \in RandStrings : PostBatch(n, rand)
  \/ PostBatchFails
  \/ TaskNext

Spec == Init /\ [][Next]_vars

\* the server with clients reading jobs while the background task runs
ApiRands == {<<"0">>, <<"a">>}

NextApi ==
  \/ \E n \in 0..MaxMsgs, rand \in ApiRands : PostBatch(n, rand)
  \/ PostBatchFails
  \/ TaskNext
  \/ \E jid \in AskedIds : GetStatus(jid)
  \/ \E jid \in AskedIds : GetResults(jid)
  \/ \E route \in {"status", "results"}, jid \in AskedIds : GetFails(route, jid)

SpecApi == Init /\ [][NextApi]_vars

(* ------------------- the server restarted on an old table --------------- *)
\* jobs of earlier runs: when they were created (days before the restart)
\* and how they ended
OldJobs ==
  {[rand |-> <<"o", "1">>, age |-> CLEANUP_DAYS + 2, ended |-> "completed"],
   [rand |-> <<"o", "2">>, age |-> CLEANUP_DAYS + 1, ended |-> "completed"],
   [rand |-> <<"o", "3">>, age |-> CLEANUP_DAYS, ended |-> "completed"],
   [rand |-> <<"o", "4">>, age |-> CLEANUP_DAYS - 1, ended |-> "completed"],
   [rand |-> <<"o", "5">>, age |-> CLEANUP_DAYS + 2, ended |-> "failed"]}

OldId(old) == MakeJobId(<<"0">>, old.rand)

\* the row a job of one message was left with by its task, which created,
\* ran and ended it on one day
OldRow(old) ==
  LET jid == OldId(old)
      at == 0 - old.age
      created == createJob(<<>>, jid, 1, Stamp(at))
      counted == updateJob(created, jid, ProgressUpdate(1, 1))
      ended == IF old.ended = "completed"
               THEN updateJob(counted, jid, CompletedUpdate(<<Str(AnswerText(0))>>, at))
               ELSE updateJob(counted, jid, FailureUpdate(Str(StoreError)))
  IN  ended[jid]

OldStore(olds) == [jid \in {OldId(old) : old \in olds} |->
                     OldRow(CHOOSE old \in olds : OldId(old) = jid)]

\* the job completed CLEANUP_DAYS + 1 days ago is in every old table
Old30 == CHOOSE old \in OldJobs : old.age = CLEANUP_DAYS + 1

OldStores == {OldStore(olds) : olds \in {o \in SUBSET OldJobs : Old30 \in o}}

InitRestart ==
  /\ db \in OldStores
  /\ ServerIdle
  /\ OthersIdle

NextRestart ==
  \/ \E n \in 0..MaxMsgs, rand \in ApiRands : PostBatch(n, rand)
  \/ PostBatchFails
  \/ TaskNext

SpecRestart == InitRestart /\ [][NextRestart]_vars

(* ------------------------ jobManager, call by call ---------------------- *)
\* updateJob's values.push(typeof value === 'object' ? JSON.stringify(value)
\* : value) followed by getJob's JSON.parse: of the fields the server
\* writes, results is the one holding an object
Serialized(updates) ==
  [f \in DOMAIN updates |->
     IF f = "results" THEN JsonArray(updates[f]) ELSE updates[f]]

\* the object processBatchAsync passes to updateJob when the stream is exhausted
CompletedFields(arr, at) ==
  [status |-> "completed", results |-> arr, completed_at |-> Stamp(at)]

\* the arrays processBatchAsync can hold then: each slot assigned or not
ResultArrays(n) == [1..n -> {Hole, Str(AnswerText(0))}]

\* the objects the server passes to updateJob for a job of n messages
PassedUpdates(n, at) ==
  {[status |-> "processing", progress |-> ProgressZero],
   [batch_id |-> Str(<<"msgbatch">>), status |-> "waiting"]}
  \cup {ProgressUpdate(count, n) : count \in 1..n}
  \cup {CompletedFields(arr, at) : arr \in ResultArrays(n)}
  \cup {FailureUpdate(Str(e)) : e \in {StoreError, ProviderError, TimeoutError}}

StoreIds == {MakeJobId(<<"0">>, rand) : rand \in ApiRands}

CallCount == IF call = NoCall THEN 0 ELSE call.n

\* total_messages of the job the update is for; 1 for an id with no row
MessagesOf(jid) == IF jid \in DOMAIN db THEN db[jid].total_messages ELSE 1

\* jobManager.createJob(jobId, totalMessages, modelConfig)
CallCreateJob(jid, n) ==
  /\ CallCount < MaxCalls
  /\ jid \notin DOMAIN db
  /\ db' = createJob(db, jid, n, Stamp(now))
  /\ call' = [op |-> "createJob", jobId |-> jid, updates |-> <<>>, n |-> CallCount + 1]
  /\ UNCHANGED <<now, pc, response, jobId, total, batchId, attempt, queries, waited,
                 outcome, results, processedCount, index, item, err>>
  /\ UNCHANGED <<reply, split, app, proc>>

\* jobManager.updateJob(jobId, updates)
CallUpdateJob(jid, updates) ==
  /\ CallCount < MaxCalls
  /\ db' = updateJob(db, jid, Serialized(updates))
  /\ call' = [op |-> "updateJob", jobId |-> jid, updates |-> updates, n |-> CallCount + 1]
  /\ UNCHANGED <<now, pc, response, jobId, total, batchId, attempt, queries, waited,
                 outcome, results, processedCount, index, item, err>>
  /\ UNCHANGED <<reply, split, app, proc>>

NextStore ==
  \/ \E jid \in StoreIds, n \in 0..MaxMsgs : CallCreateJob(jid, n)
  \/ \E jid \in StoreIds :
       \E updates \in PassedUpdates(MessagesOf(jid), now) : CallUpdateJob(jid, updates)

SpecStore == Init /\ [][NextStore]_vars

(* ======================= frontend: AIProcessor.jsx ====================== *)
(* --------------------------- splitIntoBatches --------------------------- *)
CLAUDE_BATCH_SIZE == 1000
MAX_BATCH_SIZE_MB == 32
BytesPerMB == 1024 * 1024

\* A message is known to splitIntoBatches by its place in the argument and
\* by new Blob([JSON.stringify(msg)]).size, its serialized size in bytes: the
\* argument is the sequence of these sizes and a batch is a sequence of
\* places.  A size in MB is a number of bytes over 2^20, which is exact in a
\* double, so the tests on MB are tests on bytes.
MsgSizes == {100, 16 * BytesPerMB, 16 * BytesPerMB + 1,
             MAX_BATCH_SIZE_MB * BytesPerMB, (MAX_BATCH_SIZE_MB + 1) * BytesPerMB}

\* lists long enough to fill batches by count, of small messages
LongLens == {CLAUDE_BATCH_SIZE - 1, CLAUDE_BATCH_SIZE, CLAUDE_BATCH_SIZE + 1,
             2 * CLAUDE_BATCH_SIZE + 1}

SplitInputs ==
  SeqsUpTo(MsgSizes, MaxSplitLen) \cup {[i \in 1..len |-> 100] : len \in LongLens}

\* currentBatchSize + msgSize > MAX_BATCH_SIZE_MB || currentBatch.length >= CLAUDE_BATCH_SIZE
StartsNewBatch(currentBatchSize, currentBatch, msgSize) ==
  \/ currentBatchSize + msgSize > MAX_BATCH_SIZE_MB * BytesPerMB
  \/ Len(currentBatch) >= CLAUDE_BATCH_SIZE

\* mutant: the current batch is pushed even when it is empty
Pushed_Always(batches, currentBatch) == Append(batches, currentBatch)

\* if (currentBatch.length > 0) batches.push(currentBatch)
Pushed(batches, currentBatch) ==
  IF Len(currentBatch) > 0 THEN Append(batches, currentBatch) ELSE batches

\* splitIntoBatches(messages) is called
SplitCall(messages) ==
  /\ split.pc = "idle"
  /\ split' = [pc |-> "loop", messages |-> messages, k |-> 1, batches |-> <<>>,
               currentBatch |-> <<>>, currentBatchSize |-> 0]
  /\ UNCHANGED <<serverVars, reply, call, app, proc>>

\* one iteration of for (const msg of messages)
SplitMessage ==
  /\ split.pc = "loop"
  /\ split.k <= Len(split.messages)
  /\ LET msgSize == split.messages[split.k]
     IN  split' =
           IF StartsNewBatch(split.currentBatchSize, split.currentBatch, msgSize)
           THEN [split EXCEPT !.batches = Pushed(split.batches, split.currentBatch),
                              !.currentBatch = <<split.k>>,
                              !.currentBatchSize = msgSize,
                              !.k = split.k + 1]
           ELSE [split EXCEPT !.currentBatch = Append(split.currentBatch, split.k),
                              !.currentBatchSize = split.currentBatchSize + msgSize,
                              !.k = split.k + 1]
  /\ UNCHANGED <<serverVars, reply, call, app, proc>>

\* the loop is over: the last batch is pushed and batches is returned
SplitReturn ==
  /\ split.pc = "loop"
  /\ split.k > Len(split.messages)
  /\ split' = [split EXCEPT !.batches = Pushed(split.batches, split.currentBatch),
                            !.pc = "returned"]
  /\ UNCHANGED <<serverVars, reply, call, app, proc>>

NextSplit ==
  \/ \E messages \in SplitInputs : SplitCall(messages)
  \/ SplitMessage
  \/ SplitReturn

SpecSplit == Init /\ [][NextSplit]_vars

(* ------------------------- template expansion -------------------------- *)
\* Strings of the frontend are sequences of characters.
RECURSIVE TrimLeft(_)
TrimLeft(s) == IF s # <<>> /\ Head(s) = " " THEN TrimLeft(Tail(s)) ELSE s

RECURSIVE TrimRight(_)
TrimRight(s) ==
  IF s # <<>> /\ s[Len(s)] = " " THEN TrimRight(SubSeq(s, 1, Len(s) - 1)) ELSE s

\* String.prototype.trim, for blanks
Trim(s) == TrimRight(TrimLeft(s))

\* the place of the first "}" of s, 0 when there is none
CloseAt(s) ==
  IF \E j \in 1..Len(s) : s[j] = "}"
  THEN CHOOSE j \in 1..Len(s) : s[j] = "}" /\ \A k \in 1..(j - 1) : s[k] # "}"
  ELSE 0

\* mutant: an empty cell is substituted like any other value
Resolved_Empty(row, match, columnName) ==
  LET cleanColumnName == Trim(columnName)
  IN  IF cleanColumnName \in DOMAIN row THEN row[cleanColumnName] ELSE match

\* the callback of replace: row[cleanColumnName] || match, on both of its
\* branches (prompt.visionEnabled only adds to urlMatches)
Resolved(row, match, columnName) ==
  LET cleanColumnName == Trim(columnName)
  IN  IF cleanColumnName \in DOMAIN row /\ row[cleanColumnName] # <<>>
      THEN row[cleanColumnName]
      ELSE match

RECURSIVE Replace(_, _)
\* template.replace(/\{([^}]+)\}/g, callback): from the left, each "{"
\* followed by one or more characters other than "}" and then "}" is a match
Replace(template, row) ==
  IF template = <<>> THEN <<>>
  ELSE IF Head(template) = "{" /\ CloseAt(template) > 2
       THEN LET close == CloseAt(template)
            IN  Resolved(row, SubSeq(template, 1, close),
                         SubSeq(template, 2, close - 1))
                \o Replace(SubSeq(template, close + 1, Len(template)), row)
       ELSE <<Head(template)>> \o Replace(Tail(template), row)

\* !processedPrompt || processedPrompt === prompt.template
IsEmptyPrompt(processedPrompt, template) ==
  processedPrompt = <<>> \/ processedPrompt = template

\* row[column] = value
SetCell(row, column, value) ==
  [c \in DOMAIN row \cup {column} |-> IF c = column THEN value ELSE row[c]]

\* new Array(rows.length).fill('Processing...')
ProcessingPlaceholder == <<"P", "r", "o", "c", "e", "s", "s", "i", "n", "g", ".", ".", ".">>

(* ----------------------- rate limits and estimates --------------------- *)
MAX_RETRIES == 5
\* RATE_LIMITS.claude.inputTokensPerMinute
inputTokensPerMinute == 80000
\* the length of the window of checkAndResetTokens, in ms
MinuteMs == 60000
\* error.response.headers['retry-after'] || 60
DefaultRetryAfter == 60

\* RATE_LIMITS[model].minDelay, in ms
minDelay(model) ==
  CASE model = "gpt" -> 10
    [] model = "gemini" -> 2000
    [] model = "claude" -> 60
    [] model = "perplexity" -> 2000

\* DEFAULT_MODEL_CONFIG.claude.systemPrompt
claudeSystemPrompt ==
  <<"Y", "o", "u", " ", "a", "r", "e", " ", "a", "n", " ", "e", "x", "p", "e",
    "r", "t", " ", "i", "n", " ", "H", "T", "M", "L", ".">>

\* A long text is written with the element Wide, which stands for a run of
\* WideLen letters x: "S" followed by Wide is the longest prompt whose
\* estimate, added to the system prompt's, is still within the ceiling.
Wide == "x..."
WideLen == 4 * (inputTokensPerMinute - (Len(claudeSystemPrompt) + 3) \div 4) - 1

\* The element Huge stands for a run of HugeLen letters, as many as the
\* bytes of half of MAX_BATCH_SIZE_MB: one message with it is within the
\* size bound of a chunk, two are not.
Huge == "X..."
HugeLen == (MAX_BATCH_SIZE_MB * BytesPerMB) \div 2

\* text.length
RECURSIVE Length(_)
Length(text) ==
  IF text = <<>> THEN 0
  ELSE (IF Head(text) = Wide THEN WideLen
        ELSE IF Head(text) = Huge THEN HugeLen ELSE 1) + Length(Tail(text))

\* new Blob([JSON.stringify(messages)]).size for messages of letters:
\* [{"content":"...","imageUrls":[]},...]
RECURSIVE ContentBytes(_)
ContentBytes(messages) ==
  IF messages = <<>> THEN 0
  ELSE 29 + Length(Head(messages)) + ContentBytes(Tail(messages))

SerializedBytes(messages) ==
  2 + ContentBytes(messages) + (IF Len(messages) > 1 THEN Len(messages) - 1 ELSE 0)

\* Math.ceil(text.length / 4)
estimateTokens(text) == (Length(text) + 3) \div 4

\* inputTokenCount of processRow
InputTokenCount(model, text) ==
  IF model = "claude"
  THEN estimateTokens(text) + estimateTokens(claudeSystemPrompt)
  ELSE estimateTokens(text)

\* mutant: a request of one token more than the ceiling is let through
OverTokenLimit_Lenient(model, text) ==
  /\ model = "claude"
  /\ InputTokenCount(model, text) > inputTokensPerMinute + 1

\* inputTokenCount > RATE_LIMITS.claude.inputTokensPerMinute, for claude
OverTokenLimit(model, text) ==
  /\ model = "claude"
  /\ InputTokenCount(model, text) > inputTokensPerMinute

\* the headers of a 429 answer: no retry-after, or retry-after: 90
RetryAfters == {Null, Str(<<"9", "0">>)}

\* (error.response.headers['retry-after'] || 60) * 1000; the header is a
\* string of digits, which the product converts to its number
RetrySleepMs(header) ==
  (IF header = Null \/ header.s = <<>>
   THEN DefaultRetryAfter
   ELSE ParseDigits(header.s, 0, FALSE)) * 1000

\* text.includes('Error')
IncludesError(text) ==
  \E k \in 1..(Len(text) - 4) :
    SubSeq(text, k, k + 4) = <<"E", "r", "r", "o", "r">>

(* ------------------------------ the inputs ----------------------------- *)
ColT == <<"t">>
ColA == <<"a">>
ColB == <<"b">>

\* a parsed CSV row: column t absent, empty or filled, column a absent or filled
RawRow(t, a) ==
  [c \in (IF t = Null THEN {} ELSE {ColT}) \cup (IF a = Null THEN {} ELSE {ColA}) |->
     IF c = ColT THEN t.s ELSE a.s]

RawRows == {RawRow(t, a) : t \in {Null, Str(<<>>), Str(<<"v">>)},
                            a \in {Null, Str(<<"w">>)}}

Datasets == SeqsUpTo(RawRows, MaxRows)

Summarize == [name |-> <<"P", "1">>, template |-> <<"S", "{", "t", "}">>,
              outputColumn |-> ColA, active |-> TRUE]
Spaced == [name |-> <<"P", "1">>, template |-> <<"{", " ", "t", " ", "}">>,
           outputColumn |-> ColA, active |-> TRUE]
Literal == [name |-> <<"P", "0">>, template |-> <<"S">>,
            outputColumn |-> ColB, active |-> TRUE]
Inactive == [name |-> <<"P", "0">>, template |-> <<"X", "{", "t", "}">>,
             outputColumn |-> ColT, active |-> FALSE]
Chain == [name |-> <<"P", "2">>, template |-> <<"C", "{", "a", "}">>,
          outputColumn |-> ColB, active |-> TRUE]

Title == [name |-> <<"P", "3">>, template |-> <<"S", "{", "t", "}">>,
          outputColumn |-> ColB, active |-> TRUE]

PromptLists == {<<Summarize>>, <<Summarize, Chain>>, <<Inactive, Spaced, Chain>>,
                <<Literal, Summarize>>, <<Chain, Title>>}

Models == {"claude", "gpt"}

\* the datasets of the runs whose failed cells are reprocessed: column t is
\* empty, short, as long as the ceiling allows for "S{t}", or one letter
\* longer; one row comes with a value in column a
ReprocessRows ==
  {RawRow(Str(t), Null) : t \in {<<>>, <<"v">>, <<Wide>>, <<Wide, "x">>, <<Huge>>}}
    \cup {RawRow(Str(<<"v">>), Str(<<"w">>))}

ReprocessDatasets == SeqsUpTo(ReprocessRows, MaxRows) \ {<<>>}

ReprocessPrompts == {<<Summarize>>, <<Inactive, Spaced>>}

\* response.data.result of POST /process for a row
AnswerFor(i) == <<"r">> \o DecStr(i)

(* ---------------------------- component state -------------------------- *)
\* A JS array of row objects is a sequence of references into app.heap, the
\* row objects themselves; a state that can be null holds Arr(ids) or Null.
Arr(ids) == [js |-> "array", ids |-> ids]

\* the component after a file was parsed and the prompts were edited;
\* shown tells whether the output state holds the rows or is still null;
\* sent and answers are what went to the backend and what /process answered.
\* caller is the run in progress, replay the failedCells that
\* reprocessFailedCells iterates over, elapsed its now - lastMinuteStart
\* (time passes by the sleeps of the code) and window the number of times
\* it has reset its count; response is what came back for the last
\* request, slept is what processRow has slept since the
\* last request went out, reprocessed tells whether reprocessFailedCells
\* was called; written and attempted are the cells
\* processData has stored and the rows it has handled for each prompt,
\* cancelled tells whether stopProcessing was called during the run.
Mounted(dataset, prompts, model, shown) ==
  [pc |-> "ready", selectedModel |-> model, prompts |-> prompts,
   heap |-> dataset,
   csvData |-> Arr([k \in 1..Len(dataset) |-> k]),
   output |-> IF shown THEN Arr([k \in 1..Len(dataset) |-> k]) ELSE Null,
   results |-> <<>>, activePrompts |-> <<>>, p |-> 0, i |-> 0,
   sent |-> <<>>, answers |-> <<>>, batchJobs |-> <<>>, failedCells |-> <<>>,
   error |-> Null, stopProcessing |-> FALSE, abortController |-> Null,
   caller |-> "none", retryCount |-> 0, replay |-> <<>>,
   response |-> Null, tokenCount |-> 0, elapsed |-> 0, window |-> 0, slept |-> 0,
   reprocessed |-> FALSE,
   written |-> {}, attempted |-> <<>>, cancelled |-> FALSE,
   polling |-> <<>>, merged |-> {}]

InitApp ==
  /\ db = <<>>
  /\ ServerIdle
  /\ reply = Null
  /\ call = NoCall
  /\ split = NotSplitting
  /\ proc = NoRequest
  /\ app \in {Mounted(dataset, prompts, model, shown) :
                dataset \in Datasets, prompts \in PromptLists,
                model \in Models, shown \in BOOLEAN}

IsActive(prompt) == prompt.active

Replaying == app.caller = "reprocessFailedCells"

\* the prompt, the rows and the row of the current iteration; in
\* reprocessFailedCells the prompt and the row are those of the failed cell
Prompt ==
  IF Replaying THEN app.replay[app.i + 1].prompt ELSE app.activePrompts[app.p]
RowCount == Len(app.results)
RowAt(k) == app.heap[app.results[k]]

\* rowIndex of the running call of processRow, and its place in results
RowIndex == IF Replaying THEN app.replay[app.i + 1].rowIndex ELSE app.i
Place == RowIndex + 1

\* results[k] for k in ids gets column = value
FillCells(heap, ids, column, value) ==
  [h \in DOMAIN heap |->
     IF h \in ids THEN SetCell(heap[h], column, value) ELSE heap[h]]

\* trackFailedCell's entry
FailedCell(rowIndex, prompt, message) ==
  [rowIndex |-> rowIndex, promptName |-> prompt.name,
   outputColumn |-> prompt.outputColumn, prompt |-> prompt, error |-> message]

\* error.message of a failed request, of a request answered 429, of a
\* request aborted through its signal, and of the two errors processRow throws
NetworkError == <<"Network Error">>
RateLimitError == <<"Request failed with status code 429">>
CanceledError == <<"canceled">>
StoppedByUser == <<"Processing stopped by user">>
TokenLimitError == <<"Input token limit exceeded for this request">>

\* the run reads the clock: reprocessFailedCells, in checkAndResetTokens
ReadsClock(a) == a.caller = "reprocessFailedCells" /\ a.selectedModel = "claude"

\* await sleep(ms); of now - lastMinuteStart only the minute matters
Slept(a, ms) ==
  [a EXCEPT !.slept = @ + ms,
            !.elapsed = IF ~ReadsClock(a) THEN @
                        ELSE IF @ + ms < MinuteMs THEN @ + ms ELSE MinuteMs]

\* finally: stopProcessingRef.current = false, abortController.current = null,
\* and then if (results.length > 0) setOutput(results)
Ended(a) ==
  [a EXCEPT !.pc = "done",
            !.output = IF Len(a.results) > 0 THEN Arr(a.results) ELSE @,
            !.stopProcessing = FALSE,
            !.abortController = Null,
            !.caller = "none",
            !.retryCount = 0]

(* ------------------------------ processData ---------------------------- *)
\* if (!output || !csvData) return
ProcessDataReturns ==
  /\ app.pc = "ready"
  /\ app.output = Null
  /\ app' = [app EXCEPT !.pc = "done"]
  /\ UNCHANGED <<serverVars, reply, call, split, proc>>

\* the run starts: setFailedCells([]), results = [...output], activePrompts
ProcessData ==
  /\ app.pc = "ready"
  /\ app.output # Null
  /\ app' = [app EXCEPT !.pc = "prompt",
                        !.caller = "processData",
                        !.error = Null,
                        !.failedCells = <<>>,
                        !.stopProcessing = FALSE,
                        !.results = app.output.ids,
                        !.activePrompts = SelectSeq(app.prompts, IsActive),
                        !.p = 1,
                        !.i = 0]
  /\ UNCHANGED <<serverVars, reply, call, split, proc>>

\* stopProcessing, while the run shows its button: the flag is set and the
\* signal of the last request, if there was one, is aborted
StopProcessing ==
  /\ app.pc \in {"prompt", "row", "chunk", "batch", "process", "delay",
                 "backoff", "replay"}
  /\ ~app.stopProcessing
  /\ app' = [app EXCEPT !.stopProcessing = TRUE,
                        !.cancelled = TRUE,
                        !.abortController =
                           IF @ = Null THEN Null ELSE [aborted |-> TRUE]]
  /\ UNCHANGED <<serverVars, reply, call, split, proc>>

\* for (const prompt of activePrompts): the next prompt, on the path of the model
NextPrompt ==
  /\ app.pc = "prompt"
  /\ app.p <= Len(app.activePrompts)
  /\ ~app.stopProcessing
  /\ app' = [app EXCEPT !.pc = IF app.selectedModel = "claude" THEN "chunk" ELSE "row",
                        !.i = 0]
  /\ UNCHANGED <<serverVars, reply, call, split, proc>>

\* the prompts are exhausted or the flag breaks the loop: finally, and
\* if (results.length > 0) setOutput(results)
Finish ==
  /\ app.pc = "prompt"
  /\ app.p > Len(app.activePrompts) \/ app.stopProcessing
  /\ app' = Ended(app)
  /\ UNCHANGED <<serverVars, reply, call, split, proc>>

(* ------------- processRow(row, prompt, retryCount, rowIndex) ----------- *)
\* checkAndResetTokens of reprocessFailedCells: a new window after a minute,
\* or a sleep to the end of the window when the count has reached the ceiling
checkAndResetTokens(a) ==
  IF a.elapsed >= MinuteMs
  THEN [a EXCEPT !.tokenCount = 0, !.elapsed = 0, !.window = @ + 1]
  ELSE IF a.tokenCount >= inputTokensPerMinute
       THEN [a EXCEPT !.tokenCount = 0, !.elapsed = 0, !.window = @ + 1,
                      !.slept = @ + (MinuteMs - a.elapsed)]
       ELSE a

\* processRow is called: by processData or by reprocessFailedCells for the
\* next row of their loop, or by itself after the sleep that follows a 429
Calling ==
  \/ app.pc = "row" /\ app.i < RowCount /\ ~app.stopProcessing
  \/ app.pc = "replay" /\ app.i < Len(app.replay) /\ ~app.stopProcessing
  \/ app.pc = "backoff"

\* the state the call starts in: reprocessFailedCells has checked the count
\* for claude, processData has come to row i of prompt p
Entered ==
  IF app.pc = "replay" /\ app.selectedModel = "claude"
  THEN checkAndResetTokens(app)
  ELSE IF app.pc = "row"
       THEN [app EXCEPT !.attempted = Append(@, <<app.p, app.i>>)]
       ELSE app

\* the template with its placeholders replaced from the row
processedPrompt == Replace(Prompt.template, RowAt(Place))

\* processRow returns result and its caller stores it: results[i][column] =
\* result, and in reprocessFailedCells setOutput([...results])
Returns(a, result) ==
  IF a.caller = "processData"
  THEN [a EXCEPT !.pc = "row",
                 !.heap = FillCells(@, {a.results[Place]}, Prompt.outputColumn, result),
                 !.written = @ \cup {<<Place, Prompt.outputColumn>>},
                 !.retryCount = 0,
                 !.i = @ + 1]
  ELSE [a EXCEPT !.pc = "replay",
                 !.heap = FillCells(@, {a.results[Place]}, Prompt.outputColumn, result),
                 !.output = Arr(a.results),
                 !.retryCount = 0,
                 !.i = @ + 1]

\* a variant in which the error ends the loops of processData
Throws_Aborts(a, message) ==
  LET cell == FailedCell(RowIndex, Prompt, message)
  IN  [a EXCEPT !.pc = IF a.caller = "processData" THEN "row" ELSE "replay",
                !.failedCells = @ \o <<cell>>,
                !.retryCount = 0,
                !.p = IF a.caller = "processData" THEN Len(a.activePrompts) ELSE @,
                !.i = IF a.caller = "processData" THEN Len(a.results) ELSE @ + 1]

\* processRow's catch calls trackFailedCell and throws the error again;
\* the catch of processData calls trackFailedCell once more, the catch of
\* reprocessFailedCells only continues
Throws(a, message) ==
  LET cell == FailedCell(RowIndex, Prompt, message)
  IN  [a EXCEPT !.pc = IF a.caller = "processData" THEN "row" ELSE "replay",
                !.failedCells = @ \o (IF a.caller = "processData"
                                      THEN <<cell, cell>> ELSE <<cell>>),
                !.retryCount = 0,
                !.i = @ + 1]

\* for (let i = 0; i < results.length; i++) is over, or the flag breaks it
RowsDone ==
  /\ app.pc = "row"
  /\ app.i >= RowCount \/ app.stopProcessing
  /\ app' = [app EXCEPT !.pc = "prompt", !.p = app.p + 1]
  /\ UNCHANGED <<serverVars, reply, call, split, proc>>

\* processRow returns '' for an empty cell
RowSkipped ==
  /\ Calling
  /\ ~app.stopProcessing
  /\ IsEmptyPrompt(processedPrompt, Prompt.template)
  /\ app' = Returns(Entered, <<>>)
  /\ UNCHANGED <<serverVars, reply, call, split, proc>>

\* claude: the estimate of the request alone is over the ceiling
RowOverLimit ==
  /\ Calling
  /\ ~app.stopProcessing
  /\ ~IsEmptyPrompt(processedPrompt, Prompt.template)
  /\ OverTokenLimit(app.selectedModel, processedPrompt)
  /\ app' = Throws(Entered, TokenLimitError)
  /\ UNCHANGED <<serverVars, reply, call, split, proc>>

\* claude: await sleep(RATE_LIMITS.claude.minDelay) before the request
RowDelayed ==
  /\ Calling
  /\ ~app.stopProcessing
  /\ ~IsEmptyPrompt(processedPrompt, Prompt.template)
  /\ app.selectedModel = "claude"
  /\ ~OverTokenLimit(app.selectedModel, processedPrompt)
  /\ app' = [Slept(Entered, minDelay("claude")) EXCEPT !.pc = "delay"]
  /\ UNCHANGED <<serverVars, reply, call, split, proc>>

\* processRow posts the expanded prompt to /process with the signal of a
\* new AbortController: at once for the other models, after the sleep for
\* claude. sent lists the request once: retryCount + 1 is the number of
\* times it has gone out
RowSent ==
  /\ \/ /\ Calling
        /\ ~app.stopProcessing
        /\ ~IsEmptyPrompt(processedPrompt, Prompt.template)
        /\ app.selectedModel # "claude"
     \/ app.pc = "delay"
  /\ app' = [(IF app.pc = "delay" THEN app ELSE Entered) EXCEPT
               !.pc = "process",
               !.abortController = [aborted |-> FALSE],
               !.response = Null,
               !.slept = 0,
               !.sent = IF app.retryCount > 0 THEN @
                        ELSE Append(@, [route |-> "process",
                                        p |-> IF Replaying THEN 0 ELSE app.p,
                                        rowIndex |-> RowIndex,
                                        prompt |-> processedPrompt,
                                        tokens |-> InputTokenCount(app.selectedModel,
                                                                   processedPrompt),
                                        window |-> Entered.window])]
  /\ UNCHANGED <<serverVars, reply, call, split, proc>>

\* what comes back for the request that is out: an answer, a failure
\* without a 429, a 429 with its headers, or the abort of its signal
Got(kind, header) ==
  [app EXCEPT !.response = [kind |-> kind, retryAfter |-> header]]

\* /process answers: setOutput with a copy of the row holding the result,
\* return response.data.result || ''
RowAnswered(result) ==
  /\ app.pc = "process"
  /\ ~app.abortController.aborted
  /\ LET copy == SetCell(app.heap[app.output.ids[Place]],
                         Prompt.outputColumn, result)
         shown == [Got("answer", Null) EXCEPT !.heap = Append(@, copy),
                              !.output = Arr([app.output.ids EXCEPT
                                                ![Place] = Len(app.heap) + 1]),
                              !.answers = Append(@, [p |-> IF Replaying THEN 0
                                                           ELSE app.p,
                                                     rowIndex |-> RowIndex,
                                                     result |-> result])]
     IN  app' = Returns(shown, result)
  /\ UNCHANGED <<serverVars, reply, call, split, proc>>

\* mutant: the failure is followed by another attempt, as a 429 is
RowFailed_Retried ==
  /\ app.pc = "process"
  /\ ~app.abortController.aborted
  /\ app' = [Got("failure", Null) EXCEPT !.pc = "backoff", !.retryCount = @ + 1]
  /\ UNCHANGED <<serverVars, reply, call, split, proc>>

\* /process fails with an error that is neither a 429 nor an abort
RowFailed ==
  /\ app.pc = "process"
  /\ ~app.abortController.aborted
  /\ app' = Throws(Got("failure", Null), NetworkError)
  /\ UNCHANGED <<serverVars, reply, call, split, proc>>

\* mutant: the retry follows the 429 without a sleep
RowRateLimited_NoSleep(header) ==
  /\ app.pc = "process"
  /\ ~app.abortController.aborted
  /\ app.retryCount < MAX_RETRIES
  /\ app' = [Got("limit", header) EXCEPT !.pc = "backoff",
                                         !.retryCount = @ + 1]
  /\ UNCHANGED <<serverVars, reply, call, split, proc>>

\* /process answers 429 and retryCount < MAX_RETRIES: sleep, then
\* processRow(row, prompt, retryCount + 1, rowIndex)
RowRateLimited(header) ==
  /\ app.pc = "process"
  /\ ~app.abortController.aborted
  /\ app.retryCount < MAX_RETRIES
  /\ app' = [Slept(Got("limit", header), RetrySleepMs(header)) EXCEPT
               !.pc = "backoff",
               !.retryCount = @ + 1]
  /\ UNCHANGED <<serverVars, reply, call, split, proc>>

\* /process answers 429 and retryCount has reached MAX_RETRIES
RetriesExhausted(header) ==
  /\ app.pc = "process"
  /\ ~app.abortController.aborted
  /\ app.retryCount >= MAX_RETRIES
  /\ app' = Throws(Got("limit", header), RateLimitError)
  /\ UNCHANGED <<serverVars, reply, call, split, proc>>

\* the signal was aborted while the request was out: axios rejects with
\* its own error
RowAborted ==
  /\ app.pc = "process"
  /\ app.abortController.aborted
  /\ app' = Throws(Got("abort", Null), CanceledError)
  /\ UNCHANGED <<serverVars, reply, call, split, proc>>

\* the call after the sleep finds the flag set and throws 'Processing
\* stopped by user': processData throws it on to its finally,
\* reprocessFailedCells catches it and continues
RetryStopped ==
  /\ app.pc = "backoff"
  /\ app.stopProcessing
  /\ app' = IF app.caller = "processData"
            THEN Ended(app)
            ELSE [app EXCEPT !.pc = "replay", !.retryCount = 0, !.i = @ + 1]
  /\ UNCHANGED <<serverVars, reply, call, split, proc>>

(* --------------- bulk path: batchProcessRows(batchRows, prompt, i) ------ *)
\* results.slice(i, i + CLAUDE_BATCH_SIZE), as places of results
ChunkPlaces ==
  (app.i + 1)..(IF RowCount < app.i + CLAUDE_BATCH_SIZE
                THEN RowCount ELSE app.i + CLAUDE_BATCH_SIZE)

ChunkIds == {app.results[k] : k \in ChunkPlaces}

\* batchMessages: the content of the message of each row of the chunk
BatchMessages ==
  [k \in 1..Cardinality(ChunkPlaces) |-> Replace(Prompt.template, RowAt(app.i + k))]

\* batchMessages.every(msg => !msg.content || msg.content === prompt.template)
AllEmpty(messages, template) ==
  \A k \in DOMAIN messages : IsEmptyPrompt(messages[k], template)

\* processData has come to the chunk at i of prompt p
ChunkAttempted ==
  [app EXCEPT !.attempted =
                 @ \o [k \in 1..Cardinality(ChunkPlaces) |-> <<app.p, app.i + k - 1>>]]

\* batchResults.forEach: results[rowIndex][prompt.outputColumn] = result,
\* then setOutput([...results])
ChunkStored(a, value) ==
  [a EXCEPT !.pc = "chunk",
            !.heap = FillCells(@, ChunkIds, Prompt.outputColumn, value),
            !.written = @ \cup {<<k, Prompt.outputColumn>> : k \in ChunkPlaces},
            !.output = Arr(a.results),
            !.i = @ + CLAUDE_BATCH_SIZE]

\* for (let i = 0; i < results.length; i += CLAUDE_BATCH_SIZE) is over, or
\* the flag breaks it
ChunksDone ==
  /\ app.pc = "chunk"
  /\ app.i >= RowCount \/ app.stopProcessing
  /\ app' = [app EXCEPT !.pc = "prompt", !.p = app.p + 1]
  /\ UNCHANGED <<serverVars, reply, call, split, proc>>

\* every message is empty: fill(''), stored by processData
ChunkSkipped ==
  /\ app.pc = "chunk"
  /\ app.i < RowCount
  /\ ~app.stopProcessing
  /\ AllEmpty(BatchMessages, Prompt.template)
  /\ app' = ChunkStored(ChunkAttempted, <<>>)
  /\ UNCHANGED <<serverVars, reply, call, split, proc>>

\* batchProcessRows posts all the messages of the chunk to /batch
ChunkSent ==
  /\ app.pc = "chunk"
  /\ app.i < RowCount
  /\ ~app.stopProcessing
  /\ ~AllEmpty(BatchMessages, Prompt.template)
  /\ app' = [ChunkAttempted EXCEPT
               !.pc = "batch",
               !.sent = Append(@, [route |-> "batch", p |-> app.p,
                                   startIndex |-> app.i,
                                   messages |-> BatchMessages])]
  /\ UNCHANGED <<serverVars, reply, call, split, proc>>

\* /batch answers {jobId, status}: the job is tracked, fill('Processing...')
\* is stored by processData
BatchAccepted ==
  /\ app.pc = "batch"
  /\ app' = ChunkStored([app EXCEPT !.batchJobs =
                                       Append(@, [jobId |-> Len(@) + 1,
                                                  status |-> "created",
                                                  outputColumn |-> Prompt.outputColumn,
                                                  startIndex |-> app.i]),
                                  !.polling = Append(@, "idle")],
                        ProcessingPlaceholder)
  /\ UNCHANGED <<serverVars, reply, call, split, proc>>

\* /batch fails: processData calls trackFailedCell for each row of the chunk
BatchFailed ==
  /\ app.pc = "batch"
  /\ app' = [app EXCEPT !.pc = "chunk",
                        !.failedCells =
                           @ \o [k \in 1..Cardinality(ChunkPlaces) |->
                                   FailedCell(app.i + k - 1, Prompt, NetworkError)],
                        !.i = app.i + CLAUDE_BATCH_SIZE]
  /\ UNCHANGED <<serverVars, reply, call, split, proc>>

(* -------------------------- reprocessFailedCells ----------------------- *)
\* the button of the failed cells, when no run is in progress:
\* if (!failedCells.length || !output) return; results = [...output]
ReprocessFailedCells ==
  /\ app.pc = "done"
  /\ app.failedCells # <<>>
  /\ app.output # Null
  /\ ~app.reprocessed
  /\ app' = [app EXCEPT !.pc = "replay",
                        !.caller = "reprocessFailedCells",
                        !.error = Null,
                        !.results = app.output.ids,
                        !.replay = app.failedCells,
                        !.i = 0,
                        !.tokenCount = 0,
                        !.elapsed = 0,
                        !.slept = 0,
                        !.reprocessed = TRUE]
  /\ UNCHANGED <<serverVars, reply, call, split, proc>>

\* results[cell.rowIndex][cell.outputColumn] is undefined
CellMissing(cell) ==
  cell.outputColumn \notin DOMAIN RowAt(cell.rowIndex + 1)

\* results[cell.rowIndex][cell.outputColumn].includes('Error')
CellHasError(cell) ==
  IncludesError(RowAt(cell.rowIndex + 1)[cell.outputColumn])

\* the loop is over or the flag ends it: setFailedCells(prev => prev.filter(..)),
\* finally, setOutput(results). The filter throws a TypeError on a cell that
\* is undefined, when React runs it: the component fails to render
ReplayDone ==
  /\ app.pc = "replay"
  /\ app.i >= Len(app.replay) \/ app.stopProcessing
  /\ app' = IF \E n \in DOMAIN app.failedCells : CellMissing(app.failedCells[n])
            THEN [Ended(app) EXCEPT !.pc = "crashed"]
            ELSE [Ended(app) EXCEPT !.failedCells = SelectSeq(@, CellHasError)]
  /\ UNCHANGED <<serverVars, reply, call, split, proc>>

Answers == IF app.pc = "process" THEN {AnswerFor(RowIndex), <<>>} ELSE {}

NextApp ==
  \/ ProcessDataReturns
  \/ ProcessData
  \/ StopProcessing
  \/ NextPrompt
  \/ Finish
  \/ RowsDone
  \/ RowSkipped
  \/ RowSent
  \/ \E result \in Answers : RowAnswered(result)
  \/ RowFailed
  \/ \E header \in RetryAfters : RowRateLimited(header)
  \/ \E header \in RetryAfters : RetriesExhausted(header)
  \/ RowAborted
  \/ RetryStopped
  \/ ChunksDone
  \/ ChunkSkipped
  \/ ChunkSent
  \/ BatchAccepted
  \/ BatchFailed

SpecApp == InitApp /\ [][NextApp]_vars

\* a run of the model of the bulk path, whose failed cells come from the
\* chunks that /batch refused, and then reprocessFailedCells
InitReprocess ==
  /\ db = <<>>
  /\ ServerIdle
  /\ reply = Null
  /\ call = NoCall
  /\ split = NotSplitting
  /\ proc = NoRequest
  /\ app \in {Mounted(dataset, prompts, "claude", TRUE) :
                dataset \in ReprocessDatasets, prompts \in ReprocessPrompts}

NextReprocess ==
  \/ ProcessData
  \/ StopProcessing
  \/ NextPrompt
  \/ Finish
  \/ ChunksDone
  \/ ChunkSkipped
  \/ ChunkSent
  \/ BatchAccepted
  \/ BatchFailed
  \/ ReprocessFailedCells
  \/ RowSkipped
  \/ RowOverLimit
  \/ RowDelayed
  \/ RowSent
  \/ \E result \in Answers : RowAnswered(result)
  \/ RowFailed
  \/ \E header \in RetryAfters : RowRateLimited(header)
  \/ \E header \in RetryAfters : RetriesExhausted(header)
  \/ RowAborted
  \/ RetryStopped
  \/ ReplayDone

SpecReprocess == InitReprocess /\ [][NextReprocess]_vars

(* ------------------------- the poller of the jobs ---------------------- *)
\* app.polling[j] is the position of the interval's callback for the job at
\* place j of batchJobs: "idle", or the GET that is out ("status",
\* "results"); app.merged holds the places of the jobs whose results
\* handleBatchResults has stored. The server's side of a job is its answers.

\* the statuses GET /batch/:jobId can answer for a job that exists
JobStatuses == {"processing", "completed", "failed"}

\* the number of messages of the job's chunk
ChunkLen(tracked) ==
  IF Len(app.results) - tracked.startIndex < CLAUDE_BATCH_SIZE
  THEN Len(app.results) - tracked.startIndex ELSE CLAUDE_BATCH_SIZE

\* results of GET /batch/:jobId/results for a completed job: one answer for
\* each message of the chunk, in the order of the messages
JobResults(tracked) ==
  [k \in 1..ChunkLen(tracked) |-> AnswerFor(tracked.startIndex + k - 1)]

\* one long dataset, of one row more than a chunk holds
LongDataset == [k \in 1..(CLAUDE_BATCH_SIZE + 1) |-> RawRow(Str(<<"v">>), Null)]

PollRows == {RawRow(Str(t), Null) : t \in {<<>>, <<"v">>}}
PollDatasets == SeqsUpTo(PollRows, MaxRows) \ {<<>>}
PollPrompts == {<<Summarize>>, <<Summarize, Chain>>}

\* a callback of the poller runs while no handler of the component is
\* running: processData is not called, has returned, or waits for /batch
Suspended == app.pc \in {"ready", "batch", "done"}

\* the interval fires for a job that is not terminal in batchJobs:
\* axios.get(`${API_URL}/batch/${tracked.jobId}`) goes out
PollTick(j) ==
  /\ Suspended
  /\ j \in DOMAIN app.batchJobs
  /\ app.batchJobs[j].status \notin {"completed", "failed"}
  /\ app.polling[j] = "idle"
  /\ app' = [app EXCEPT !.polling[j] = "status"]
  /\ UNCHANGED <<serverVars, reply, call, split, proc>>

\* the status arrives: setBatchJobs merges it into the job, and for
\* 'completed' the GET of the results goes out
StatusAnswered(j, status) ==
  /\ Suspended
  /\ j \in DOMAIN app.polling
  /\ app.polling[j] = "status"
  /\ app' = [app EXCEPT !.batchJobs[j].status = status,
                        !.polling[j] = IF status = "completed" THEN "results" ELSE "idle"]
  /\ UNCHANGED <<serverVars, reply, call, split, proc>>

\* a GET of the poller fails: the catch logs the error
PollFailed(j) ==
  /\ Suspended
  /\ j \in DOMAIN app.polling
  /\ app.polling[j] \in {"status", "results"}
  /\ app' = [app EXCEPT !.polling[j] = "idle"]
  /\ UNCHANGED <<serverVars, reply, call, split, proc>>

\* handleBatchResults: setOutput(prevOutput => ...) puts results[index] into
\* a copy of the row at index of the output, for every index the output has
handleBatchResults(a, tracked, jobResults) ==
  LET n == Len(a.output.ids)
      m == IF Len(jobResults) < n THEN Len(jobResults) ELSE n
  IN  [a EXCEPT
         !.heap = @ \o [k \in 1..m |-> SetCell(a.heap[a.output.ids[k]],
                                              tracked.outputColumn, jobResults[k])],
         !.output = Arr([k \in 1..n |-> IF k <= m THEN Len(a.heap) + k
                                        ELSE a.output.ids[k]])]

\* the results arrive and handleBatchResults stores them
ResultsAnswered(j) ==
  /\ Suspended
  /\ j \in DOMAIN app.polling
  /\ app.polling[j] = "results"
  /\ app' = [handleBatchResults(app, app.batchJobs[j], JobResults(app.batchJobs[j]))
               EXCEPT !.polling[j] = "idle", !.merged = @ \cup {j}]
  /\ UNCHANGED <<serverVars, reply, call, split, proc>>

\* a run of processData on the bulk path, with the poller
InitPoll ==
  /\ db = <<>>
  /\ ServerIdle
  /\ reply = Null
  /\ call = NoCall
  /\ split = NotSplitting
  /\ proc = NoRequest
  /\ app \in {Mounted(dataset, prompts, "claude", TRUE) :
                dataset \in PollDatasets, prompts \in PollPrompts}
              \cup {Mounted(LongDataset, <<Summarize>>, "claude", TRUE)}

NextPoll ==
  \/ ProcessData
  \/ NextPrompt
  \/ Finish
  \/ ChunksDone
  \/ ChunkSkipped
  \/ ChunkSent
  \/ BatchAccepted
  \/ BatchFailed
  \/ \E j \in DOMAIN app.batchJobs : PollTick(j)
  \/ \E j \in DOMAIN app.batchJobs, status \in JobStatuses : StatusAnswered(j, status)
  \/ \E j \in DOMAIN app.batchJobs : PollFailed(j)
  \/ \E j \in DOMAIN app.batchJobs : ResultsAnswered(j)

SpecPoll == InitPoll /\ [][NextPoll]_vars

(* ============================ POST /process =========================== *)
\* what an image URL of the request serves: an image, a page that is not an
\* image, nothing (the HEAD request fails), or an image to HEAD and an
\* error to GET
ImageUrlKinds == {"image", "page", "gone", "broken"}

\* the longest list of image URLs of a request
MaxUrls == 2

\* isValidImageUrl: the HEAD request succeeds with an image content type
isValidImageUrl(url) == url \in {"image", "broken"}

\* req.body of the requests: batchMessages is absent, as in every request
\* of the frontend
ProcessRequests ==
  [prompt : {Null, Str(<<"q">>)},
   model : {"gemini", "gpt", "claude", "perplexity", "llama"},
   visionEnabled : BOOLEAN,
   visionModel : {Null, Str(<<"v", "m">>)},
   imageUrls : SeqsUpTo(ImageUrlKinds, MaxUrls)]

\* the text of a completion: some text or the empty string
ProviderTexts == {Str(<<"r">>), Str(<<>>)}

\* !value
Not(value) == value = Null \/ value = Str(<<>>)

\* modelConfig.visionEnabled && modelConfig.visionModel
isVisionRequest(p) == p.visionEnabled /\ ~Not(p.visionModel)

\* processedImages.filter(img => img !== null)
validImages(p) == SelectSeq(p.imageUrls, isValidImageUrl)

\* the models the two switch statements have a completion call for
HasCompletion(model) == model \in {"gemini", "gpt", "claude"}

\* next(error): errorHandler answers 500 with the message of the error
Rejected(p, message) ==
  [p EXCEPT !.pc = "answered",
            !.answer = [status |-> 500, success |-> FALSE, error |-> message]]

\* res.json({ success: true, result, targetColumn })
Succeeded(p, result) ==
  [p EXCEPT !.pc = "answered",
            !.result = result,
            !.answer = [status |-> 200, success |-> TRUE, result |-> result]]

\* if (!result) { switch (model.toLowerCase()) ... }: the text-only call goes
\* out; perplexity has no call and leaves result undefined
TextOnly(p) ==
  IF HasCompletion(p.model)
  THEN [p EXCEPT !.pc = "text", !.calls = Append(@, "text")]
  ELSE IF p.model = "perplexity"
       THEN Rejected(p, <<"No result generated">>)
       ELSE Rejected(p, <<"Unsupported model: ", p.model>>)

\* the request arrives: 400 without a prompt, the image URLs are probed for
\* a vision request that has some, the text-only call goes out otherwise
PostProcess(request) ==
  /\ proc.pc = "idle"
  /\ LET p == [pc |-> "received", prompt |-> request.prompt, model |-> request.model,
               visionEnabled |-> request.visionEnabled,
               visionModel |-> request.visionModel,
               imageUrls |-> request.imageUrls,
               result |-> Null, calls |-> <<>>, answer |-> Null]
     IN  proc' = IF Not(request.prompt)
                 THEN [p EXCEPT !.pc = "answered",
                                !.answer = [status |-> 400, success |-> FALSE,
                                            error |-> <<"Prompt or batch messages are required">>]]
                 ELSE IF isVisionRequest(p) /\ Len(p.imageUrls) > 0
                      THEN [p EXCEPT !.pc = "images"]
                      ELSE TextOnly(p)
  /\ UNCHANGED <<serverVars, reply, call, split, app>>

\* Promise.all over the image URLs has settled: processImageUrl threw for
\* a URL, or no image is valid and isVisionRequest = false assigns to a
\* const (a TypeError in a module), or the vision call goes out
ImagesProcessed ==
  /\ proc.pc = "images"
  /\ proc' = IF \E n \in DOMAIN proc.imageUrls : proc.imageUrls[n] = "broken"
             THEN Rejected(proc, <<"Failed to process image URL: ">>)
             ELSE IF validImages(proc) = <<>>
                  THEN Rejected(proc, <<"Assignment to constant variable.">>)
                  ELSE IF HasCompletion(proc.model)
                       THEN [proc EXCEPT !.pc = "vision", !.calls = Append(@, "vision")]
                       ELSE Rejected(proc, <<"Vision not supported for model: ", proc.model>>)
  /\ UNCHANGED <<serverVars, reply, call, split, app>>

\* the vision call returns its text: the answer, unless !result
VisionReturned(text) ==
  /\ proc.pc = "vision"
  /\ proc' = IF Not(text) THEN TextOnly([proc EXCEPT !.result = text])
             ELSE Succeeded(proc, text)
  /\ UNCHANGED <<serverVars, reply, call, split, app>>

\* the text-only call returns its text
TextReturned(text) ==
  /\ proc.pc = "text"
  /\ proc' = IF Not(text) THEN Rejected([proc EXCEPT !.result = text], <<"No result generated">>)
             ELSE Succeeded(proc, text)
  /\ UNCHANGED <<serverVars, reply, call, split, app>>

\* the call that is out throws
CompletionThrew ==
  /\ proc.pc \in {"vision", "text"}
  /\ proc' = Rejected(proc, <<"provider error">>)
  /\ UNCHANGED <<serverVars, reply, call, split, app>>

NextProcess ==
  \/ \E request \in ProcessRequests : PostProcess(request)
  \/ ImagesProcessed
  \/ \E text \in ProviderTexts : VisionReturned(text)
  \/ \E text \in ProviderTexts : TextReturned(text)
  \/ CompletionThrew

SpecProcess == Init /\ [][NextProcess]_vars

TypeOK ==
  /\ pc \in {"idle", "http500", "start", "create", "markWaiting", "poll",
             "sleep", "stream", "progress", "cleanup", "done", "catch",
             "failed", "rejected"}
  /\ total \in 0..MaxMsgs
  /\ attempt \in 0..maxAttempts
  /\ processedCount \in 0..MaxMsgs

(* =============================== claims ================================ *)
Completed == HasJob /\ job.status = "completed"

\* the array the loop of processBatchAsync builds when the provider streams
\* the results of the requests in the given order
RECURSIVE ReconcileAll(_, _)
ReconcileAll(order, arr) ==
  IF order = <<>> THEN arr
  ELSE LET i == Head(order)
       IN  ReconcileAll(Tail(order),
             ArraySet(arr, ParseIndex(CustomId(jobId, i)), ResultString(i, outcome[i])))

ForwardOrder == [k \in 1..total |-> k - 1]
ReverseOrder == [k \in 1..total |-> total - k]

\* C1: the index parsed from a streamed result's custom_id is the index of
\* that request in messages, and in a completed job results[i] holds the
\* outcome of messages[i] for every i
C1_IndexFromCustomId ==
  /\ pc = "progress" => index = item
  /\ Completed =>
       \A i \in Items : /\ i + 1 <= Len(job.results)
                        /\ job.results[i + 1] = ResultString(i, outcome[i])

\* C2: the persisted results array does not depend on the order of arrival:
\* it is the array built from the same results fed in forward order, and the
\* one built from them fed in reverse order
C2_OrderIndependent ==
  Completed =>
    /\ job.results = JsonArray(ReconcileAll(ForwardOrder, NewArray(total)))
    /\ job.results = JsonArray(ReconcileAll(ReverseOrder, NewArray(total)))

NonTerminal == {"created", "processing", "waiting"}

StatusSteps ==
  {<<"created", "processing">>, <<"processing", "waiting">>,
   <<"waiting", "completed">>} \cup {<<st, "failed">> : st \in NonTerminal}

\* C3: every change of the persisted status is a step of
\* created -> processing -> waiting -> completed or goes from a non-terminal
\* status to failed; a completed or failed job never changes status
C3_StatusOneWay ==
  [][(HasJob /\ HasJob' /\ job'.status # job.status)
       => <<job.status, job'.status>> \in StatusSteps]_vars

\* C4 (as stated): progress is 100 exactly when the status is completed
C4_Progress100IffCompleted ==
  HasJob => (ProgressIs100(job.progress) <=> job.status = "completed")

\* C4 (amended): a completed job with at least one message has progress 100;
\* progress is 100 only when every message has been processed and the job is
\* waiting (last item reconciled, completed not yet written), completed, or
\* failed after that point; never while created or processing
C4_Progress100 ==
  HasJob =>
    /\ (job.status = "completed" /\ job.total_messages >= 1)
         => ProgressIs100(job.progress)
    /\ ProgressIs100(job.progress)
         => /\ job.status \in {"waiting", "completed", "failed"}
            /\ job.processed_messages = job.total_messages

C4_Witness ==
  /\ HasJob
  /\ job.status = "waiting"
  /\ ProgressIs100(job.progress)
  /\ job.total_messages >= 2

\* request indices whose result has been streamed
Streamed == {i \in DOMAIN outcome : outcome[i] # "none"}

\* C5: the persisted progress and processed_messages never decrease, and the
\* update after each reconciled item adds one to processed_messages and
\* writes progress = processed / total * 100, so that between items the
\* persisted count is the number of reconciled items
C5_ProgressMonotonic ==
  [][(HasJob /\ HasJob') =>
       /\ ProgressLeq(job.progress, job'.progress)
       /\ job.processed_messages <= job'.processed_messages
       /\ (pc = "progress" /\ pc' = "stream") =>
            /\ job'.processed_messages = job.processed_messages + 1
            /\ job'.progress = Progress(job'.processed_messages, job.total_messages)
       /\ pc' = "stream" => job'.processed_messages = Cardinality(Streamed')]_vars

C5_Witness ==
  /\ HasJob
  /\ pc = "stream"
  /\ job.processed_messages = 2
  /\ job.progress = Progress(2, 3)

\* C6: processed_messages never exceeds total_messages
C6_ProcessedAtMostTotal ==
  HasJob => job.processed_messages <= job.total_messages

C6_Witness ==
  /\ HasJob
  /\ job.total_messages >= 2
  /\ job.processed_messages = job.total_messages

\* C7: results is never longer than total_messages, and in a completed job
\* it has exactly total_messages entries
C7_ResultsLength ==
  HasJob =>
    /\ Len(job.results) <= job.total_messages
    /\ job.status = "completed" => Len(job.results) = job.total_messages

IsErrorString(v) ==
  /\ v.js = "string"
  /\ Len(v.s) >= 1
  /\ v.s[1] = "Error: "

Failed(k) == outcome[k] \in {"errored", "expired"}

\* C8: in a completed job with errored or expired items, the slot of each
\* such item holds a string beginning "Error: " ("Error: Request expired"
\* for an expired one) and every other slot holds its own item's text
C8_ItemFailureIsolated ==
  (Completed /\ \E k \in Items : Failed(k)) =>
    /\ Len(job.results) = total
    /\ \A k \in Items :
         /\ Failed(k) => IsErrorString(job.results[k + 1])
         /\ outcome[k] = "expired"
              => job.results[k + 1] = Str(<<"Error: ", "Request expired">>)
         /\ ~Failed(k) => job.results[k + 1] = Str(AnswerText(k))

Queries == pc = "poll" /\ (pc' \in {"sleep", "stream"} \/ err' = Str(ProviderError))

C11_ResultsOnlyWhenCompleted ==
  [][reply' # reply =>
       LET jid == reply'.jobId
           answer == reply'.answer
       IN  answer.code # 500 =>
             /\ jid \notin DOMAIN db => answer = NotFound
             /\ (jid \in DOMAIN db /\ reply'.route = "results") =>
                  IF db[jid].status = "completed"
                  THEN /\ answer.code = 200
                       /\ answer.results = db[jid].results
                       /\ jid = jobId =>
                            /\ Remaining = {}
                            /\ answer.results = JsonArray(results)
                  ELSE answer = NotCompleted]_vars

\* the results of a completed job of several messages have been handed out
C11_Witness ==
  /\ reply # Null
  /\ reply.route = "results"
  /\ reply.answer.code = 200
  /\ Len(reply.answer.results) > 1

(* ----------------------------------------------------------------------- *)
\* the jobs of the table whose completion lies more than 29 days back
Purgeable(store, at) ==
  {jid \in DOMAIN store :
     /\ store[jid].completed_at # Null
     /\ at - store[jid].completed_at.at > 29}

\* C12: cleanupOldJobs deletes exactly the jobs whose completed_at is more
\* than 29 days before the moment it runs and leaves every other job as it
\* was, jobs without completed_at included
C12_PurgeOlderThan29Days ==
  [][(pc = "cleanup" /\ pc' = "done") =>
       /\ DOMAIN db' = DOMAIN db \ Purgeable(db, now)
       /\ \A jid \in DOMAIN db' : db'[jid] = db[jid]]_vars

\* the sweep has run on a table holding jobs completed 31, 30, 29 and 28
\* days ago and a job that failed 31 days ago: the first two are gone, the
\* others and the job just completed are there
C12_Witness ==
  /\ pc = "done"
  /\ HasJob
  /\ \A old \in OldJobs :
       OldId(old) \in DOMAIN db <=>
         (old.ended = "failed" \/ old.age <= CLEANUP_DAYS)

\* the task has ended with the job on a terminal status
TaskEnded == pc \in {"done", "failed"}

\* no job is deleted except by the sweep of processBatchAsync
DeletedOnlyBySweep ==
  ~(DOMAIN db \subseteq DOMAIN db') =>
    /\ pc = "cleanup"
    /\ pc' = "done"
    /\ db' = cleanupOldJobs(db, now)

\* C13 as stated: once a job has reached completed or failed and its task
\* has ended, the sweep has run (nothing purgeable is left), and no other
\* operation deletes jobs
C13_SweepAfterTerminal ==
  /\ [](TaskEnded => Purgeable(db, now) = {})
  /\ [][DeletedOnlyBySweep]_vars

\* C13 amended: the step that makes a job completed is followed by the call
\* of cleanupOldJobs, which deletes or rejects; the catch block that makes
\* a job failed ends the task with no sweep; no other operation deletes jobs
C13_SweepAfterCompleted ==
  [][/\ (HasJob' /\ job'.status = "completed" /\ ~(HasJob /\ job.status = "completed"))
         => pc' = "cleanup"
     /\ pc = "cleanup" =>
          \/ pc' = "done" /\ db' = cleanupOldJobs(db, now)
          \/ pc' = "catch" /\ err' = Str(StoreError) /\ db' = db
     /\ pc = "catch" => pc' \in {"failed", "rejected"} /\ DOMAIN db' = DOMAIN db
     /\ pc # "failed"
     /\ DeletedOnlyBySweep]_vars

\* a job has completed and the sweep that followed deleted an old job
C13_Witness ==
  /\ pc = "done"
  /\ Completed
  /\ OldId(Old30) \notin DOMAIN db

(* ----------------------------------------------------------------------- *)
\* C14: updateJob(jobId, updates) is a partial merge: the fields named in
\* updates take the values passed, and getJob reads them back equal, results
\* included; every other field of the record and every other record stay as
\* they were; an update for an id with no record creates none
C14_PartialMerge ==
  [][(call' # call /\ call'.op = "updateJob") =>
       LET jid == call'.jobId
           updates == call'.updates
       IN  IF jid \notin DOMAIN db
           THEN db' = db
           ELSE /\ DOMAIN db' = DOMAIN db
                /\ \A j \in DOMAIN db \ {jid} : db'[j] = db[j]
                /\ \A f \in DOMAIN db[jid] \ DOMAIN updates :
                     db'[jid][f] = db[jid][f]
                /\ \A f \in DOMAIN updates :
                     getJob(db', jid)[f] = updates[f]]_vars

(* ----------------------------------------------------------------------- *)
\* C15: when POST /batch hands over to the background task and answers
\* {jobId, status: 'created'}, the job is in the table with status created,
\* progress 0, processed_messages 0 and total_messages = the number of
\* messages submitted; total_messages, created_at and model_config of a job
\* never change afterwards
C15_PersistedBeforeStart ==
  [][/\ (pc = "idle" /\ pc' = "start") =>
          /\ response' = [code |-> 200, jobId |-> jobId', status |-> "created"]
          /\ jobId' \notin DOMAIN db
          /\ jobId' \in DOMAIN db'
          /\ db'[jobId'].status = "created"
          /\ db'[jobId'].progress = ProgressZero
          /\ db'[jobId'].processed_messages = 0
          /\ db'[jobId'].total_messages = total'
     /\ (pc = "idle" /\ pc' # "start") => db' = db
     /\ \A jid \in DOMAIN db \cap DOMAIN db' :
          /\ db'[jid].total_messages = db[jid].total_messages
          /\ db'[jid].created_at = db[jid].created_at
          /\ db'[jid].model_config = db[jid].model_config]_vars

\* a job of several messages was answered and its task, which has since
\* counted items, left the fields of its creation alone
C15_Witness ==
  /\ response # Null
  /\ response.code = 200
  /\ HasJob
  /\ job.processed_messages > 1
  /\ job.total_messages = total
  /\ job.created_at = Stamp(0)

(* ----------------------------------------------------------------------- *)
RECURSIVE Flatten(_)
\* the items of the chunks, in chunk order then intra-chunk order
Flatten(batches) ==
  IF batches = <<>> THEN <<>> ELSE Head(batches) \o Flatten(Tail(batches))

SplitReturned == split.pc = "returned"

\* C16: the chunks splitIntoBatches returns, concatenated in chunk order
\* and intra-chunk order, are the input list: every item once, in its
\* place, none split; and no chunk is empty
C16_SplitPartitions ==
  SplitReturned =>
    /\ Flatten(split.batches) = [i \in 1..Len(split.messages) |-> i]
    /\ \A b \in 1..Len(split.batches) : split.batches[b] # <<>>

\* a list of three messages was cut into two chunks, the first of two messages
C16_Witness ==
  /\ SplitReturned
  /\ Len(split.messages) = 3
  /\ Len(split.batches) = 2
  /\ Len(split.batches[1]) = 2

RECURSIVE ChunkBytes(_, _)
\* the serialized size of the items of a chunk
ChunkBytes(messages, chunk) ==
  IF chunk = <<>> THEN 0
  ELSE messages[Head(chunk)] + ChunkBytes(messages, Tail(chunk))

\* C17: no chunk returned by splitIntoBatches holds more than 1000 items or
\* more than 32 MB of serialized content, and each chunk but the last was
\* closed because the item that follows it would have exceeded a bound
C17_ChunksWithinBounds ==
  SplitReturned =>
    \A b \in 1..Len(split.batches) :
      LET chunk == split.batches[b]
          bytes == ChunkBytes(split.messages, chunk)
      IN  /\ Len(chunk) <= 1000
          /\ bytes <= 32 * BytesPerMB
          /\ b < Len(split.batches) =>
               \/ Len(chunk) + 1 > 1000
               \/ bytes + split.messages[Head(split.batches[b + 1])] > 32 * BytesPerMB

(* ----------------------------------------------------------------------- *)
\* the column names of the placeholders of a template: the trimmed text
\* between a "{" and the first "}" after it
PlaceholderNames(template) ==
  {Trim(SubSeq(template, a + 1, b - 1)) :
     <<a, b>> \in {<<a, b>> \in (1..Len(template)) \X (1..Len(template)) :
                     /\ template[a] = "{"
                     /\ template[b] = "}"
                     /\ b > a + 1
                     /\ \A k \in (a + 1)..(b - 1) : template[k] # "}"}}

\* no placeholder of the template names a column the row has a non-empty value for
NoValue(template, row) ==
  \A name \in PlaceholderNames(template) : name \notin DOMAIN row \/ row[name] = <<>>

\* a step of the run, which the cancellation flag has not stopped: the
\* other steps are those of stopProcessing and those that end the loops
RunStep == ~app.stopProcessing /\ ~app'.stopProcessing

\* C18: when no placeholder of the template names a column with a
\* non-empty value in the row, the expansion is the template itself, and
\* processRow returns '' (which processData stores in the output column)
\* without a request being sent
C18_EmptyRowSkipped ==
  [][(app.pc = "row" /\ app.i < RowCount /\ RunStep
        /\ NoValue(Prompt.template, RowAt(app.i + 1))) =>
       /\ Replace(Prompt.template, RowAt(app.i + 1)) = Prompt.template
       /\ app'.sent = app.sent
       /\ app'.pc = "row"
       /\ app'.i = app.i + 1
       /\ app'.heap[app.results[app.i + 1]][Prompt.outputColumn] = <<>>]_vars

\* the first row, whose column t is empty, was skipped for "S{t}"
C18_Witness ==
  /\ app.pc = "row"
  /\ app.i = 1
  /\ app.sent = <<>>
  /\ Prompt.template = Summarize.template
  /\ ColT \in DOMAIN RowAt(1)
  /\ RowAt(1)[ColT] = <<>>
  /\ RowAt(1)[Prompt.outputColumn] = <<>>

(* ----------------------------------------------------------------------- *)
\* the earlier active prompts whose output column a placeholder of the
\* request's prompt names
ChainedFrom(request) ==
  {q \in 1..(request.p - 1) :
     app.activePrompts[q].outputColumn
       \in PlaceholderNames(app.activePrompts[request.p].template)}

\* the text the request's prompt expands to for the row at place k when the
\* output column of prompt q holds value
TextWith(request, k, q, value) ==
  Replace(app.activePrompts[request.p].template,
          SetCell(RowAt(k), app.activePrompts[q].outputColumn, value))

\* the request went out with, for its column, what /process had answered
\* for the same row and the earlier prompt
UsesAnswer(request, q) ==
  \A n \in 1..Len(app.answers) :
    (app.answers[n].p = q /\ app.answers[n].rowIndex = request.rowIndex) =>
      request.prompt = TextWith(request, request.rowIndex + 1, q, app.answers[n].result)

\* the batch of prompt q that covers the rows of the request was accepted
BatchPending(request, q) ==
  \E n \in 1..Len(app.batchJobs) :
    /\ app.batchJobs[n].outputColumn = app.activePrompts[q].outputColumn
    /\ app.batchJobs[n].startIndex = request.startIndex

\* no message of the request carries 'Processing...' where the earlier
\* prompt's output belongs
UsesNoPlaceholder(request, q) ==
  \A k \in 1..Len(request.messages) :
    request.messages[k] #
      TextWith(request, request.startIndex + k, q, ProcessingPlaceholder)

Dispatched == app'.sent[Len(app'.sent)]

\* the places of the rows the step has finished with, none of them failing
Finished ==
  IF app.pc \in {"row", "process", "chunk", "batch"} /\ app'.i > app.i
       /\ app'.failedCells = app.failedCells
  THEN {k \in 1..RowCount : app.i < k /\ k <= app'.i}
  ELSE {}

\* the row at place k expands to an empty prompt for the current prompt
ExpandsEmpty(k) ==
  IsEmptyPrompt(Replace(Prompt.template, RowAt(k)), Prompt.template)

OverCeilingCall ==
  /\ Calling
  /\ RunStep
  /\ app.selectedModel = "claude"
  /\ ~IsEmptyPrompt(processedPrompt, Prompt.template)
  /\ (Length(processedPrompt) + 3) \div 4 + (Length(claudeSystemPrompt) + 3) \div 4
       > 80000

\* C21: for claude, a call of processRow whose request alone is estimated
\* over the per-minute ceiling fails at once with 'Input token limit
\* exceeded for this request': nothing is posted to /process, the call
\* does not sleep, and the error is what the failed cell of the row carries
C21_TokenLimitFailsWithoutCall ==
  [][OverCeilingCall =>
       /\ app'.sent = app.sent
       /\ app'.pc \notin {"delay", "process", "backoff"}
       /\ app'.slept = app.slept
       /\ app'.i = app.i + 1
       /\ app'.failedCells =
            Append(app.failedCells, FailedCell(RowIndex, Prompt, TokenLimitError))]_vars

\* the failed cell of a row whose column t is one letter too long was
\* reprocessed and failed on the ceiling, nothing having been posted to /process
C21_Witness ==
  /\ app.pc = "replay"
  /\ app.i = 1
  /\ RowAt(app.replay[1].rowIndex + 1)[ColT] = <<Wide, "x">>
  /\ app.replay[1].prompt = Summarize
  /\ app.failedCells[Len(app.failedCells)].error = TokenLimitError
  /\ \A n \in 1..Len(app.sent) : app.sent[n].route = "batch"

(* ----------------------------------------------------------------------- *)
\* the number of times the request of the running call has been posted
Attempts == app.retryCount + 1

\* the step is processRow handling what came back for its request
Handles(kind) ==
  /\ app.pc = "process"
  /\ app'.response # Null
  /\ app'.response.kind = kind

\* /process has answered 429 to the running call
Answered429 == Handles("limit")

\* the interval the provider suggests, 60 s when it suggests none, in ms
SuggestedMs(header) ==
  IF header = Null THEN 60 * 1000 ELSE ParseDigits(header.s, 0, FALSE) * 1000

\* the policy with a cap on the attempts: a request is posted at most cap
\* times; a 429 to an attempt before the last is followed by a sleep of
\* the suggested interval and another attempt, a 429 to the last attempt
\* is thrown to the caller, which records it and goes on to its next row
WithinCap(cap) == app.pc = "process" => Attempts <= cap

RetryPolicy(cap) ==
  Answered429 =>
    IF Attempts < cap
    THEN /\ app'.pc = "backoff"
         /\ app'.slept = app.slept + SuggestedMs(app'.response.retryAfter)
         /\ app'.retryCount = app.retryCount + 1
         /\ app'.failedCells = app.failedCells
    ELSE /\ app'.pc \in {"row", "replay"}
         /\ app'.i = app.i + 1
         /\ app'.retryCount = 0
         /\ app'.failedCells[Len(app'.failedCells)] =
              FailedCell(RowIndex, Prompt, RateLimitError)

Tracked ==
  {app'.failedCells[n] : n \in (Len(app.failedCells) + 1)..Len(app'.failedCells)}

Dispatches ==
  \/ app.pc # "process" /\ app'.pc = "process"
  \/ app.pc # "batch" /\ app'.pc = "batch"

Halts ==
  \/ Handles("abort")
  \/ app.pc = "backoff" /\ app.stopProcessing /\ app'.pc # "backoff"

C25_StoppedCallNotRecorded ==
  [][(Halts /\ ~Handles("abort")) => /\ app'.failedCells = app.failedCells
                                     /\ app'.error = app.error]_vars

(* ----------------------------------------------------------------------- *)
\* the cell of the row at place k of results, and of output, in column c
ResultCell(a, k, c) == a.heap[a.results[k]][c]
OutputCell(a, k, c) == a.heap[a.output.ids[k]][c]

\* the step leaves the cells that processData has stored as they are
KeepsWritten ==
  \A cell \in app.written :
    /\ cell[2] \in DOMAIN app'.heap[app'.results[cell[1]]]
    /\ ResultCell(app', cell[1], cell[2]) = ResultCell(app, cell[1], cell[2])

\* the output state shows the cells that processData has stored
ShowsWritten ==
  \A cell \in app.written :
    /\ cell[2] \in DOMAIN app.heap[app.output.ids[cell[1]]]
    /\ OutputCell(app, cell[1], cell[2]) = ResultCell(app, cell[1], cell[2])

DistinctColumns ==
  \A p, q \in 1..Len(app.activePrompts) :
    app.activePrompts[p].outputColumn = app.activePrompts[q].outputColumn => p = q

\* C26 for the runs in which no two active prompts write the same column
C26_DistinctColumnsKept ==
  /\ [][(app.cancelled /\ DistinctColumns) => KeepsWritten]_vars
  /\ []((app.pc = "done" /\ app.cancelled /\ DistinctColumns) => ShowsWritten)

(* ----------------------------------------------------------------------- *)
\* the estimated input tokens of the /process requests in list that
\* reprocessFailedCells dispatched in window w of its count
RECURSIVE WindowTokens(_, _)
WindowTokens(list, w) ==
  IF list = <<>> THEN 0
  ELSE (IF Head(list).route = "process" /\ Head(list).p = 0 /\ Head(list).window = w
        THEN Head(list).tokens ELSE 0) + WindowTokens(Tail(list), w)

C27_CountNeverMoves ==
  app.tokenCount = 0

(* ----------------------------------------------------------------------- *)
\* processRow posts a request in this step and has posted one before
PostsAgain ==
  /\ app.pc # "process" /\ app'.pc = "process"
  /\ app.sent # <<>> \/ app.retryCount > 0

C28_OnlyBackoffSleeps ==
  [][(app.selectedModel # "claude" /\ PostsAgain /\ app.retryCount = 0)
       => app.slept = 0]_vars

(* ----------------------------------------------------------------------- *)
\* the number of entries of the Failed Cell list for the row at index k
RECURSIVE EntriesFor(_, _)
EntriesFor(list, k) ==
  IF list = <<>> THEN 0
  ELSE (IF Head(list).rowIndex = k THEN 1 ELSE 0) + EntriesFor(Tail(list), k)

\* the retry of the row at index k failed: processRow's catch has added an
\* entry for it behind the entries that reprocessFailedCells replays
RetryFailed(k) ==
  \E n \in (Len(app.replay) + 1)..Len(app.failedCells) : app.failedCells[n].rowIndex = k

\* reprocessFailedCells comes to the end of its loop without a cancellation
ReplayEnds ==
  /\ app.pc = "replay" /\ app'.pc # "replay"
  /\ ~app.stopProcessing

C29_ReplaysFailedCellsPerRow ==
  [][(Replaying /\ app'.sent # app.sent) =>
       /\ app'.pc = "process"
       /\ app'.sent[Len(app'.sent)].route = "process"
       /\ \E n \in DOMAIN app.replay :
            app.replay[n].rowIndex = app'.sent[Len(app'.sent)].rowIndex]_vars

(* ----------------------------------------------------------------------- *)
\* every pair of an active prompt and a row index, in prompt order and
\* then row order
AllPairs ==
  [n \in 1..(Len(app.activePrompts) * RowCount) |->
     <<(n - 1) \div RowCount + 1, (n - 1) % RowCount>>]

\* the pairs attempted so far are the first pairs of that order
AttemptedInOrder ==
  /\ Len(app.attempted) <= Len(AllPairs)
  /\ \A n \in DOMAIN app.attempted : app.attempted[n] = AllPairs[n]

NoneValidates ==
  /\ proc.pc # "idle"
  /\ ~Not(proc.prompt)
  /\ isVisionRequest(proc)
  /\ Len(proc.imageUrls) > 0
  /\ \A n \in DOMAIN proc.imageUrls : ~isValidImageUrl(proc.imageUrls[n])

\* C31: a vision request of which no image URL validates makes the
\* text-only call of its model and answers with the result of that call,
\* not with an error
C31_FallsBackToText ==
  (NoneValidates /\ HasCompletion(proc.model)) =>
    /\ proc.pc # "answered" => proc.pc \in {"images", "text"}
    /\ proc.pc = "answered" =>
         /\ proc.calls = <<"text">>
         /\ proc.answer.success => proc.answer.result = proc.result
         /\ ~Not(proc.result) => proc.answer.success

\* the other half of C31: the vision call is made only when at least one
\* image validated (holds)
C31_VisionNeedsValidImage ==
  (proc.pc # "idle" /\ \E n \in DOMAIN proc.calls : proc.calls[n] = "vision")
    => /\ isVisionRequest(proc)
       /\ validImages(proc) # <<>>

(* ----------------------------------------------------------------------- *)
\* C39: one POST /process request makes at most one completion call
C39_AtMostOneCompletion ==
  proc.pc # "idle" => Len(proc.calls) <= 1

\* a second call is only ever the text-only call after a vision call that
\* returned the empty string (holds)
C39_SecondCallAfterEmptyVision ==
  (proc.pc # "idle" /\ Len(proc.calls) > 1)
    => /\ proc.calls = <<"vision", "text">>
       /\ proc.result # Null

(* ----------------------------------------------------------------------- *)
\* text.startsWith('Error: ')
HasErrorPrefix(text) ==
  /\ Len(text) >= 7
  /\ SubSeq(text, 1, 7) = <<"E", "r", "r", "o", "r", ":", " ">>

\* every row of results has a value in the output column of every active
\* prompt
AllFilled ==
  \A k \in 1..RowCount : \A q \in DOMAIN app.activePrompts :
    app.activePrompts[q].outputColumn \in DOMAIN RowAt(k)

C32_FilledWithoutFailure ==
  (app.pc = "done" /\ ~app.cancelled /\ app.failedCells = <<>>) => AllFilled

\* no cell of the dataset ever holds a string that starts with 'Error: '
\* (holds: the component writes no such string)
C32_NoErrorStringWritten ==
  \A k \in 1..RowCount : \A c \in DOMAIN RowAt(k) : ~HasErrorPrefix(RowAt(k)[c])

(* ----------------------------------------------------------------------- *)
\* the chunks that processData has posted to /batch
BatchesSent == SelectSeq(app.sent, LAMBDA entry : entry.route = "batch")

C33_ChunkWithinCount ==
  \A n \in DOMAIN BatchesSent : Len(BatchesSent[n].messages) <= CLAUDE_BATCH_SIZE

(* ----------------------------------------------------------------------- *)
\* handleBatchResults stores the results of the job at place j in this step
MergeStep(j) ==
  /\ j \in DOMAIN app.polling
  /\ app.polling[j] = "results"
  /\ j \notin app.merged
  /\ j \in app'.merged

\* the row at place r of the output before and after the step
OldRow34(r) == app.heap[app.output.ids[r]]
NewRow34(r) == app'.heap[app'.output.ids[r]]

\* after the step the rows from place first on hold jobResults in column,
\* and every other cell of the output is as it was
StoredFrom(first, column, jobResults) ==
  /\ Len(app'.output.ids) = Len(app.output.ids)
  /\ \A r \in DOMAIN app.output.ids :
       /\ DOMAIN NewRow34(r) \subseteq DOMAIN OldRow34(r) \cup {column}
       /\ \A c \in DOMAIN OldRow34(r) \cup {column} :
            IF c = column /\ r >= first /\ r < first + Len(jobResults)
            THEN c \in DOMAIN NewRow34(r) /\ NewRow34(r)[c] = jobResults[r - first + 1]
            ELSE /\ c \in DOMAIN NewRow34(r) <=> c \in DOMAIN OldRow34(r)
                 /\ c \in DOMAIN OldRow34(r) => NewRow34(r)[c] = OldRow34(r)[c]

C34_MergedFromRowZero ==
  [][\A j \in DOMAIN app.batchJobs :
       MergeStep(j) => StoredFrom(1, app.batchJobs[j].outputColumn,
                                  JobResults(app.batchJobs[j]))]_vars

(* ----------------------------------------------------------------------- *)
\* the output shows the result that handleBatchResults stored for the job
\* at place j in its row k
ShowsResult(a, j, k) ==
  LET column == app.batchJobs[j].outputColumn
      row == a.heap[a.output.ids[k]]
  IN  column \in DOMAIN row /\ row[column] = JobResults(app.batchJobs[j])[k]

\* the output shows the placeholder in that cell
ShowsPlaceholder(a, j, k) ==
  LET column == app.batchJobs[j].outputColumn
      row == a.heap[a.output.ids[k]]
  IN  column \in DOMAIN row /\ row[column] = ProcessingPlaceholder

C36_PollerKeepsResult ==
  [][(app.pc = "done" /\ app'.pc = "done") =>
       \A j \in app.merged :
         \A k \in 1..Len(JobResults(app.batchJobs[j])) :
           (k <= Len(app.output.ids) /\ ShowsResult(app, j, k))
             => ~ShowsPlaceholder(app', j, k)]_vars

(* ----------------------------------------------------------------------- *)
\* the poller has stopped querying the job at place j: the job is terminal
\* in batchJobs, which the interval skips, and no GET for it is out
StoppedQuerying(j) ==
  /\ app.batchJobs[j].status \in {"completed", "failed"}
  /\ app.polling[j] = "idle"

C37_StatusFailureRetried ==
  [][\A j \in DOMAIN app.batchJobs :
       (app.polling[j] = "status" /\ app'.polling[j] = "idle"
          /\ app'.batchJobs[j].status = app.batchJobs[j].status)
         => app'.batchJobs[j].status \notin {"completed", "failed"}]_vars

(* ----------------------------------------------------------------------- *)
\* no two entries of the Failed Cell list have the same row index and prompt
NoTwoEntries ==
  \A n, o \in DOMAIN app.failedCells :
    (/\ app.failedCells[n].rowIndex = app.failedCells[o].rowIndex
     /\ app.failedCells[n].prompt = app.failedCells[o].prompt) => n = o

C35_OneEntryOnBulkPath ==
  (app.pc = "done" /\ app.selectedModel = "claude") => NoTwoEntries

(* ----------------------------------------------------------------------- *)
\* the job of the task is completed or failed in the table
JobTerminal == job.status \in {"completed", "failed"}

\* C38: no execution of processBatchAsync ends with its job in created,
\* processing or waiting: when the task has returned or its promise has
\* rejected, the job is completed or failed
C38_TaskEndsTerminal ==
  (pc \in {"done", "failed", "rejected"} /\ HasJob) => JobTerminal

\* a task whose promise is fulfilled leaves its job terminal (holds)
C38_ReturnedTaskTerminal ==
  (TaskEnded /\ HasJob) => JobTerminal

============================================================================
